---- MODULE Spec2Model ----
(***************************************************************************)
(* Model of the mcp-anki flashcard engine: the card store, the review log, *)
(* the anki_answer_card / anki_get_next_card handlers, the card-state      *)
(* admin tools, deck configuration, the deck / note / card tables with     *)
(* their foreign keys, the CSV and Markdown importers, and the two         *)
(* scheduling functions (applyScheduling of card-tools.js and              *)
(* Scheduler.scheduleCard).                                                *)
(*                                                                         *)
(* Reals are modelled in hundredths: ease 2.5 is 250, easyBonus 1.3 is     *)
(* 130, fuzzPercent 0.05 is 5, a learning step of 1.5 minutes is 150,      *)
(* newPerDay 20 is 2000.  Math.ceil of a product of such numbers is        *)
(* CeilDiv of the scaled product by the scale.  graduatingIntervalDays and *)
(* leechThreshold take whole values only and are kept in units.            *)
(***************************************************************************)
EXTENDS Integers, Sequences, FiniteSets, TLC

VARIABLES
    cards,      \* table cards: id -> row
    decks,      \* table decks: id -> [name, parent_id, config]
    notes,      \* table notes: id -> [deck_id, model, fields]
    reviews,    \* every row ever inserted into reviews, the index is the row id
    deletedReviews, \* the ids of the rows deleted from reviews
    seq,        \* sqlite_sequence: the highest id AUTOINCREMENT has given per table
    del,        \* the frame of the anki_delete_cards call in flight
    imp,        \* the frame of the anki_import call in flight, then its result
    exported,   \* the document of the latest anki_export and the notes it was made of
    calls,      \* anki_answer_card invocations: call number -> handler frame
    ncalls,     \* number of anki_answer_card invocations dispatched so far
    opsLeft,    \* mutating tool invocations the model still admits
    today,      \* getDaysSinceEpoch()
    nextResult, \* the value returned by the latest anki_get_next_card
    sIn,        \* input of the scheduling functions (scheduler specification)
    sOut,       \* their outputs
    readonly,   \* config.readonly of the running server
    refused     \* the tools whose calls the readonly gate has refused

vars == <<cards, decks, notes, reviews, deletedReviews, seq, del, imp, exported, calls, ncalls,
          opsLeft, today, nextResult, sIn, sOut, readonly, refused>>

\* What the handlers of the study tools never touch.
aux == <<notes, deletedReviews, seq, del, imp, exported>>

\* ---------------------------------------------------------------- bounds
NumCards == 2
NumDecks == 2
MaxOps == 3
MaxQueueOps == 2
MaxDay == 1
MaxGateOps == 2
MaxLifeOps == 4
MaxStoreOps == 3
MaxImportOps == 2
MaxOrderOps == 2

\* SQL NULL / JavaScript undefined in an integer column
NULL == -1

CardIds == 1..NumCards
DeckIds == 1..NumDecks
CallIds == 1..MaxOps
Ratings == 1..4

SchedStates == {"new", "learning", "relearning", "review"}
CardStates == SchedStates \cup {"suspended", "buried"}

\* ------------------------------------------------------------- arithmetic
\* Math.ceil(a / b) for a >= 0, b > 0
CeilDiv(a, b) == (a + b - 1) \div b

Max(a, b) == IF a >= b THEN a ELSE b

\* ------------------------------------------------------------- fixtures
\* Cards 1 and 2 are the forward / reverse cards of note 1, card 3 is the
\* card of note 2, and so on; note 1 lives in the innermost deck, note 2 in
\* its parent, and so on.
NoteOfCard(c) == (c + 1) \div 2

NoteIds == 1..NoteOfCard(NumCards)

DeckOfNote(n) == NumDecks - ((n - 1) % NumDecks)

\* JOIN notes n ON c.note_id = n.id: the deck of the card's note
DeckOfCard(c) == notes[cards[c].note_id].deck_id

\* The names of the decks the store starts with.
DeckName(d) == <<"A", "B", "C", "D">>[d]

\* A note with two cards is a basic_reverse note, with one card a basic note.
ModelOfNote(n) ==
    IF Cardinality({c \in CardIds : NoteOfCard(c) = n}) = 2 THEN "basic_reverse" ELSE "basic"

\* Deck d > 1 is a child of deck d - 1 ("A", "A::B", ...).
ParentOfDeck(d) == IF d = 1 THEN NULL ELSE d - 1

getDefaultConfig ==
    [ graduatingIntervalDays |-> 1,
      easyBonus |-> 130,
      hardInterval |-> 120,
      minEase |-> 130,
      leechThreshold |-> 8,
      leechAction |-> "suspend",
      fuzzPercent |-> 5,
      burySiblings |-> TRUE,
      learningStepsMins |-> <<100, 1000>>,
      lapseStepsMins |-> <<1000>>,
      newPerDay |-> 2000,
      reviewsPerDay |-> 20000 ]

\* generate_cards_for_note: INSERT INTO cards (note_id, template, state, due)
\* with the column defaults of the schema.
NewCard(n, template) ==
    [ note_id |-> n, template |-> template, state |-> "new", due |-> 0, ivl |-> 0, ease |-> 250,
      reps |-> 0, lapses |-> 0, queue_position |-> NULL ]

\* ------------------------------------------- applyScheduling (card-tools)
\* The snapshot the handler takes of the row it read; it has no due field.
BeforeState(row) ==
    [ state |-> row.state, ivl |-> row.ivl, ease |-> row.ease,
      reps |-> row.reps, lapses |-> row.lapses ]

\* case 'new', with rating 4 ignoring easyBonus
applyScheduling_new_noBonus(b, rating, config, day) ==
    IF rating = 4
    THEN LET i == config.graduatingIntervalDays
         IN  [b EXCEPT !.reps = @ + 1, !.state = "review", !.ivl = i,
                       !.due = day + i, !.ease = 250 + 15]
    ELSE [b EXCEPT !.reps = @ + 1, !.state = "learning", !.due = day, !.ivl = 0]

\* case 'new'
applyScheduling_new(b, rating, config, day) ==
    IF rating = 4
    THEN LET i == CeilDiv(config.graduatingIntervalDays * config.easyBonus, 100)
         IN  [b EXCEPT !.reps = @ + 1, !.state = "review", !.ivl = i,
                       !.due = day + i, !.ease = 250 + 15]
    ELSE [b EXCEPT !.reps = @ + 1, !.state = "learning", !.due = day, !.ivl = 0]

\* case 'learning', case 'relearning'
applyScheduling_learning(b, rating, config, day) ==
    IF rating = 1
    THEN [b EXCEPT !.due = day, !.ivl = 0]
    ELSE [b EXCEPT !.state = "review",
                   !.ivl = config.graduatingIntervalDays,
                   !.due = day + config.graduatingIntervalDays]

\* case 'review'; fuzz is (Math.random() - 0.5) * 2 * fuzzPercent in
\* hundredths, and the interval is ceil(ivl * multiplier * (1 + fuzz)).
applyScheduling_review(b, rating, config, day, fuzz) ==
    IF rating = 1
    THEN [b EXCEPT !.reps = @ + 1, !.lapses = @ + 1, !.state = "relearning",
                   !.ease = Max(config.minEase, b.ease - 20),
                   !.due = day, !.ivl = 0]
    ELSE LET e == IF rating = 2 THEN Max(config.minEase, b.ease - 15)
                  ELSE IF rating = 4 THEN b.ease + 15 ELSE b.ease
             i == IF rating = 2
                  THEN CeilDiv(b.ivl * config.hardInterval * (100 + fuzz), 10000)
                  ELSE IF rating = 4
                  THEN CeilDiv(b.ivl * b.ease * config.easyBonus * (100 + fuzz), 1000000)
                  ELSE CeilDiv(b.ivl * b.ease * (100 + fuzz), 10000)
         IN  [b EXCEPT !.reps = @ + 1, !.ease = e, !.ivl = i, !.due = day + i]

\* afterState starts as a copy of beforeState, so its due is undefined until
\* a branch assigns it; a state outside the switch leaves it so.
applyScheduling(beforeState, rating, config, day, fuzz) ==
    LET b == [ state |-> beforeState.state, due |-> NULL, ivl |-> beforeState.ivl,
               ease |-> beforeState.ease, reps |-> beforeState.reps,
               lapses |-> beforeState.lapses ]
    IN  CASE b.state = "new" -> applyScheduling_new(b, rating, config, day)
          [] b.state \in {"learning", "relearning"} ->
               applyScheduling_learning(b, rating, config, day)
          [] b.state = "review" -> applyScheduling_review(b, rating, config, day, fuzz)
          [] OTHER -> b

\* The values Math.random() can give the fuzz term: both ends and the middle.
FuzzSamples(fp) == IF fp = 0 THEN {0} ELSE {0 - fp, 0, fp - 1}

\* ----------------------------------------------------------------- state
IdleCall ==
    [ pc |-> "idle", cardId |-> 0, rating |-> 0, timestamp |-> 0,
      beforeState |-> BeforeState(NewCard(0, "forward")),
      afterState |-> applyScheduling(BeforeState(NewCard(0, "forward")), 0, getDefaultConfig, 0, 0),
      config |-> getDefaultConfig, day |-> 0, cardWritten |-> FALSE, logId |-> 0 ]

\* The frame of a handler that has returned (pc "done", with the row id it
\* returns) or thrown (pc "failed"): its locals are gone.  cardWritten records
\* whether its UPDATE of the card row was committed.
Returned(pc, logId, cardWritten) ==
    [IdleCall EXCEPT !.pc = pc, !.logId = logId, !.cardWritten = cardWritten]

NoResult == [ called |-> FALSE, threw |-> FALSE, deckId |-> NULL, includeSubdecks |-> FALSE,
              card |-> NULL, newCount |-> 0, reviewCount |-> 0 ]

NoSched == [ state |-> "none" ]

\* ------------------------------------------------------ the readonly gate
\* The tools that are without the mutating flag
Mutating_answerUnflagged(tool) ==
    tool \in {"anki_suspend_cards", "anki_unsuspend_cards",
              "anki_bury_cards", "anki_unbury_cards", "anki_reset_cards",
              "anki_config_set", "anki_config_reset", "anki.create_deck", "anki.add_note",
              "anki.generate_cards_for_note", "anki_delete_cards", "anki_import"}

\* mutating: true / mutating: false of the tools the model calls
Mutating(tool) ==
    tool \in {"anki_answer_card", "anki_suspend_cards", "anki_unsuspend_cards",
              "anki_bury_cards", "anki_unbury_cards", "anki_reset_cards",
              "anki_config_set", "anki_config_reset", "anki.create_deck", "anki.add_note",
              "anki.generate_cards_for_note", "anki_delete_cards", "anki_import"}

MutatingTools ==
    {"anki_answer_card", "anki_suspend_cards", "anki_unsuspend_cards",
     "anki_bury_cards", "anki_unbury_cards", "anki_reset_cards", "anki_config_set"}

\* if (this.config.readonly && tool.mutating) throw ...: the handler runs
\* only for a call the gate lets through.
Admitted(tool) == ~(readonly /\ Mutating(tool))

\* The store the behaviours start from: NumDecks nested decks, the notes and
\* their cards, all new.
\* The first card of a note is its forward card, the second its reverse card.
FixtureTemplate(c) == IF c % 2 = 1 THEN "forward" ELSE "reverse"

FixtureCards == [c \in CardIds |-> NewCard(NoteOfCard(c), FixtureTemplate(c))]

FixtureDecks ==
    [d \in DeckIds |-> [name |-> DeckName(d), parent_id |-> ParentOfDeck(d),
                        config |-> getDefaultConfig]]

FixtureNotes ==
    [n \in NoteIds |-> [deck_id |-> DeckOfNote(n), model |-> ModelOfNote(n),
                        fields |-> [front |-> "q", back |-> "a"], tags |-> ""]]

NoDelete == [ pc |-> "idle", cardIds |-> {} ]

NoImport == [ pc |-> "idle" ]

NoExport == [ pc |-> "none" ]

AuxInit ==
    /\ notes = FixtureNotes
    /\ deletedReviews = {}
    /\ seq = [decks |-> NumDecks, notes |-> NoteOfCard(NumCards), cards |-> NumCards]
    /\ del = NoDelete
    /\ imp = NoImport
    /\ exported = NoExport

Init ==
    /\ cards = FixtureCards
    /\ decks = FixtureDecks
    /\ AuxInit
    /\ reviews = <<>>
    /\ calls = [k \in CallIds |-> IdleCall]
    /\ ncalls = 0
    /\ opsLeft = MaxOps
    /\ today = 1
    /\ nextResult = NoResult
    /\ sIn = NoSched
    /\ sOut = NoSched
    /\ readonly = FALSE
    /\ refused = {}

\* ------------------------------------------------------- anki_answer_card
\* The dispatcher invokes the handler (invocation k takes timestamp k) and
\* its SELECT runs: on a row the handler computes afterState and submits the
\* UPDATE, on no row it throws "Card not found".
AnswerRead(k, cardId, rating) ==
    /\ Admitted("anki_answer_card")
    /\ opsLeft > 0
    /\ opsLeft' = opsLeft - 1
    /\ k = ncalls + 1
    /\ ncalls' = k
    /\ IF cardId \notin DOMAIN cards
       THEN calls' = [calls EXCEPT ![k] = Returned("failed", 0, FALSE)]
       ELSE LET cfg == decks[DeckOfCard(cardId)].config
                b == BeforeState(cards[cardId])
            IN  \E fuzz \in (IF b.state = "review" /\ rating # 1
                             THEN FuzzSamples(cfg.fuzzPercent) ELSE {0}) :
                    calls' = [calls EXCEPT ![k] =
                                [ pc |-> "updating", cardId |-> cardId, rating |-> rating,
                                  timestamp |-> k, beforeState |-> b, config |-> cfg,
                                  day |-> today,
                                  afterState |-> applyScheduling(b, rating, cfg, today, fuzz),
                                  cardWritten |-> FALSE, logId |-> 0 ]]
    /\ nextResult' = NoResult
    /\ UNCHANGED aux
    /\ UNCHANGED <<cards, decks, reviews, today, sIn, sOut, readonly, refused>>

\* The row the UPDATE statement leaves behind.
UpdatedRow(row, a) ==
    [row EXCEPT !.state = a.state, !.due = a.due, !.ivl = a.ivl, !.ease = a.ease,
                !.reps = a.reps, !.lapses = a.lapses]

\* The UPDATE with no NOT NULL constraint on cards.due
AnswerUpdate_dueNullable(k) ==
    /\ calls[k].pc = "updating"
    /\ \E ok \in BOOLEAN :
         IF ok
         THEN /\ cards' = [c \in DOMAIN cards |->
                              IF c = calls[k].cardId
                              THEN UpdatedRow(cards[c], calls[k].afterState) ELSE cards[c]]
              /\ calls' = [calls EXCEPT ![k].pc = "inserting", ![k].cardWritten = TRUE]
         ELSE /\ calls' = [calls EXCEPT ![k] = Returned("failed", 0, FALSE)]
              /\ UNCHANGED cards
    /\ nextResult' = NoResult
    /\ UNCHANGED aux
    /\ UNCHANGED <<decks, reviews, ncalls, opsLeft, today, sIn, sOut, readonly, refused>>

\* The UPDATE runs (on no row when the card has been deleted).  It fails when
\* the store reports an error; binding an undefined due violates NOT NULL.
\* On failure the handler throws.
AnswerUpdate(k) ==
    /\ calls[k].pc = "updating"
    /\ \E ok \in BOOLEAN :
         IF ok /\ calls[k].afterState.due # NULL
         THEN /\ cards' = [c \in DOMAIN cards |->
                              IF c = calls[k].cardId
                              THEN UpdatedRow(cards[c], calls[k].afterState) ELSE cards[c]]
              /\ calls' = [calls EXCEPT ![k].pc = "inserting", ![k].cardWritten = TRUE]
         ELSE /\ calls' = [calls EXCEPT ![k] = Returned("failed", 0, FALSE)]
              /\ UNCHANGED cards
    /\ nextResult' = NoResult
    /\ UNCHANGED aux
    /\ UNCHANGED <<decks, reviews, ncalls, opsLeft, today, sIn, sOut, readonly, refused>>

\* The INSERT binding the after-image in place of the before-image
ReviewRow_afterAsBefore(f) ==
    [ card_id |-> f.cardId, ts |-> f.timestamp, rating |-> f.rating,
      ivl_before |-> f.afterState.ivl, ivl_after |-> f.afterState.ivl,
      ease_before |-> f.afterState.ease, ease_after |-> f.afterState.ease,
      state_before |-> f.afterState.state, state_after |-> f.afterState.state ]

\* INSERT INTO reviews (...) VALUES (...): the bound values
ReviewRow(f) ==
    [ card_id |-> f.cardId, ts |-> f.timestamp, rating |-> f.rating,
      ivl_before |-> f.beforeState.ivl, ivl_after |-> f.afterState.ivl,
      ease_before |-> f.beforeState.ease, ease_after |-> f.afterState.ease,
      state_before |-> f.beforeState.state, state_after |-> f.afterState.state ]

\* The INSERT into reviews runs; on an error the handler throws, on success
\* it returns the new row id.  FOREIGN KEY (card_id) REFERENCES cards(id)
\* fails the INSERT when the card row is gone.
AnswerInsert(k) ==
    /\ calls[k].pc = "inserting"
    /\ \E ok \in BOOLEAN :
         IF ok /\ calls[k].cardId \in DOMAIN cards
         THEN /\ reviews' = Append(reviews, ReviewRow(calls[k]))
              /\ calls' = [calls EXCEPT ![k] = Returned("done", Len(reviews) + 1, TRUE)]
         ELSE /\ calls' = [calls EXCEPT ![k] = Returned("failed", 0, TRUE)]
              /\ UNCHANGED reviews
    /\ nextResult' = NoResult
    /\ UNCHANGED aux
    /\ UNCHANGED <<cards, decks, ncalls, opsLeft, today, sIn, sOut, readonly, refused>>

\* ------------------------------------------------------ card-state tools
\* The CASE giving 'new' whatever reps is
RestoredState_alwaysNew(row) == "new"

\* CASE WHEN reps = 0 THEN 'new' ELSE 'review' END
RestoredState(row) == IF row.reps = 0 THEN "new" ELSE "review"

\* Every handler below issues a single UPDATE statement.
AdminStep ==
    /\ opsLeft > 0
    /\ opsLeft' = opsLeft - 1
    /\ nextResult' = NoResult
    /\ UNCHANGED aux
    /\ UNCHANGED <<reviews, calls, ncalls, today, sIn, sOut, readonly, refused>>

\* anki_suspend_cards
SuspendCards(cardIds) ==
    /\ Admitted("anki_suspend_cards")
    /\ AdminStep
    /\ UNCHANGED decks
    /\ cards' = [c \in DOMAIN cards |->
                    IF c \in cardIds THEN [cards[c] EXCEPT !.state = "suspended"] ELSE cards[c]]

\* anki_unsuspend_cards without AND state = 'suspended'
UnsuspendCards_anyState(cardIds) ==
    /\ Admitted("anki_unsuspend_cards")
    /\ AdminStep
    /\ UNCHANGED decks
    /\ cards' = [c \in DOMAIN cards |->
                    IF c \in cardIds
                    THEN [cards[c] EXCEPT !.state = RestoredState(cards[c])] ELSE cards[c]]

\* anki_unsuspend_cards
UnsuspendCards(cardIds) ==
    /\ Admitted("anki_unsuspend_cards")
    /\ AdminStep
    /\ UNCHANGED decks
    /\ cards' = [c \in DOMAIN cards |->
                    IF c \in cardIds /\ cards[c].state = "suspended"
                    THEN [cards[c] EXCEPT !.state = RestoredState(cards[c])] ELSE cards[c]]

\* anki_bury_cards
BuryCards(cardIds) ==
    /\ Admitted("anki_bury_cards")
    /\ AdminStep
    /\ UNCHANGED decks
    /\ cards' = [c \in DOMAIN cards |->
                    IF c \in cardIds THEN [cards[c] EXCEPT !.state = "buried"] ELSE cards[c]]

\* anki_unbury_cards; an absent or empty cardIds unburies every buried card
UnburyCards(cardIds) ==
    /\ Admitted("anki_unbury_cards")
    /\ AdminStep
    /\ UNCHANGED decks
    /\ cards' = [c \in DOMAIN cards |->
                    IF (cardIds = {} \/ c \in cardIds) /\ cards[c].state = "buried"
                    THEN [cards[c] EXCEPT !.state = RestoredState(cards[c])] ELSE cards[c]]

\* The reset UPDATE leaving lapses as it is
ResetStore_keepsLapses(store, cardIds) ==
    [c \in DOMAIN store |->
        IF c \in cardIds
        THEN [store[c] EXCEPT !.state = "new", !.due = 0, !.ivl = 0, !.ease = 250, !.reps = 0]
        ELSE store[c]]

\* UPDATE cards SET state = 'new', due = 0, ivl = 0, ease = 2.5, reps = 0,
\* lapses = 0 WHERE id IN (cardIds): the table it leaves
ResetStore(store, cardIds) ==
    [c \in DOMAIN store |->
        IF c \in cardIds
        THEN [store[c] EXCEPT !.state = "new", !.due = 0, !.ivl = 0, !.ease = 250,
                              !.reps = 0, !.lapses = 0]
        ELSE store[c]]

\* anki_reset_cards
ResetCards(cardIds) ==
    /\ Admitted("anki_reset_cards")
    /\ AdminStep
    /\ UNCHANGED decks
    /\ cards' = ResetStore(cards, cardIds)

\* ------------------------------------------------------- anki_config_set
\* Number.isInteger of a number kept in hundredths
IsInteger(x) == x % 100 = 0

\* steps.some(step => typeof step !== 'number' || step <= 0)
SomeStepNotPositive(steps) == \E i \in 1..Len(steps) : steps[i] <= 0

\* The messages validateConfig collects in errors; it throws one Error
\* joining them when there is any.
validateConfig(config) ==
    {m \in {"learningStepsMins must be a non-empty array",
            "All learning steps must be positive numbers",
            "graduatingIntervalDays must be a positive number",
            "easyBonus must be a number >= 1.0",
            "hardInterval must be a number >= 1.0",
            "lapseStepsMins must be a non-empty array",
            "All lapse steps must be positive numbers",
            "newPerDay must be a non-negative integer",
            "reviewsPerDay must be a non-negative integer",
            "minEase must be a number >= 1.3",
            "leechThreshold must be a positive integer",
            "leechAction must be either suspend or tag",
            "fuzzPercent must be a number between 0 and 0.5",
            "burySiblings must be a boolean"} :
        \/ /\ m = "learningStepsMins must be a non-empty array"
           /\ Len(config.learningStepsMins) = 0
        \/ /\ m = "All learning steps must be positive numbers"
           /\ Len(config.learningStepsMins) # 0
           /\ SomeStepNotPositive(config.learningStepsMins)
        \/ /\ m = "graduatingIntervalDays must be a positive number"
           /\ config.graduatingIntervalDays <= 0
        \/ m = "easyBonus must be a number >= 1.0" /\ config.easyBonus < 100
        \/ m = "hardInterval must be a number >= 1.0" /\ config.hardInterval < 100
        \/ /\ m = "lapseStepsMins must be a non-empty array"
           /\ Len(config.lapseStepsMins) = 0
        \/ /\ m = "All lapse steps must be positive numbers"
           /\ Len(config.lapseStepsMins) # 0
           /\ SomeStepNotPositive(config.lapseStepsMins)
        \/ /\ m = "newPerDay must be a non-negative integer"
           /\ (~IsInteger(config.newPerDay) \/ config.newPerDay < 0)
        \/ /\ m = "reviewsPerDay must be a non-negative integer"
           /\ (~IsInteger(config.reviewsPerDay) \/ config.reviewsPerDay < 0)
        \/ m = "minEase must be a number >= 1.3" /\ config.minEase < 130
        \/ m = "leechThreshold must be a positive integer" /\ config.leechThreshold < 1
        \/ /\ m = "leechAction must be either suspend or tag"
           /\ config.leechAction \notin {"suspend", "tag"}
        \/ /\ m = "fuzzPercent must be a number between 0 and 0.5"
           /\ (config.fuzzPercent < 0 \/ config.fuzzPercent > 50)
        \/ m = "burySiblings must be a boolean" /\ config.burySiblings \notin BOOLEAN}

\* { ...defaultConfig, ...currentConfig, ...patch }: a patch is a function
\* from some of the keys to their new values.
MergeConfig(defaultConfig, currentConfig, patch) ==
    [f \in DOMAIN defaultConfig |->
        IF f \in DOMAIN patch THEN patch[f]
        ELSE IF f \in DOMAIN currentConfig THEN currentConfig[f]
        ELSE defaultConfig[f]]

\* The patches the model submits.
Patches ==
    { [leechThreshold |-> 1], [burySiblings |-> FALSE, fuzzPercent |-> 0],
      [minEase |-> 300, graduatingIntervalDays |-> 2],
      [minEase |-> 100, leechThreshold |-> 0] }

ConfigSet(deckId, patch) ==
    /\ Admitted("anki_config_set")
    /\ AdminStep
    /\ IF deckId \notin DOMAIN decks
       THEN UNCHANGED decks
       ELSE LET newConfig == MergeConfig(getDefaultConfig, decks[deckId].config, patch)
            IN  IF validateConfig(newConfig) = {}
                THEN decks' = [decks EXCEPT ![deckId].config = newConfig]
                ELSE UNCHANGED decks
    /\ UNCHANGED cards

\* anki_config_reset: the deck's configuration becomes getDefaultConfig().
ConfigReset(deckId) ==
    /\ Admitted("anki_config_reset")
    /\ AdminStep
    /\ IF deckId \notin DOMAIN decks
       THEN UNCHANGED decks
       ELSE decks' = [decks EXCEPT ![deckId].config = getDefaultConfig]
    /\ UNCHANGED cards

\* ----------------------------------------------------- anki_get_next_card
RECURSIVE Descendants(_, _)
\* The ids getChildren(parentId) pushes, to depth `fuel`.
Descendants(parentId, fuel) ==
    IF fuel = 0 THEN {}
    ELSE LET children == {d \in DOMAIN decks : decks[d].parent_id = parentId}
         IN  children \cup UNION {Descendants(ch, fuel - 1) : ch \in children}

getDeckHierarchy(deckId) == {deckId} \cup Descendants(deckId, NumDecks)

\* The deck filter of the query; deckId NULL stands for an absent deckId.
InScope(c, deckId, includeSubdecks) ==
    \/ deckId = NULL
    \/ /\ deckId # NULL
       /\ IF includeSubdecks THEN DeckOfCard(c) \in getDeckHierarchy(deckId)
                             ELSE DeckOfCard(c) = deckId

\* The CASE with new cards ranked before learning cards
StatePriority_newFirst(state) ==
    CASE state = "new" -> 1
      [] state = "learning" -> 2
      [] state = "relearning" -> 3
      [] state = "review" -> 4
      [] OTHER -> NULL

\* CASE c.state WHEN 'learning' THEN 1 ... END
StatePriority(state) ==
    CASE state = "learning" -> 1
      [] state = "relearning" -> 2
      [] state = "new" -> 3
      [] state = "review" -> 4
      [] OTHER -> NULL

\* ORDER BY priority, due ASC, queue_position ASC, id ASC; SQLite sorts NULL
\* before every value in ascending order.
OrderedBefore(c1, c2) ==
    LET k1 == <<StatePriority(cards[c1].state), cards[c1].due, cards[c1].queue_position, c1>>
        k2 == <<StatePriority(cards[c2].state), cards[c2].due, cards[c2].queue_position, c2>>
    IN  \E i \in 1..4 : k1[i] < k2[i] /\ \A j \in 1..(i - 1) : k1[j] = k2[j]

\* The WHERE clause without its state filter
Candidates_anyState(deckId, includeSubdecks) ==
    {c \in DOMAIN cards : /\ cards[c].due <= today
                     /\ InScope(c, deckId, includeSubdecks)}

\* WHERE c.state IN (...) AND c.due <= today AND <deck filter>
Candidates(deckId, includeSubdecks) ==
    {c \in DOMAIN cards : /\ cards[c].state \in {"learning", "relearning", "new", "review"}
                     /\ cards[c].due <= today
                     /\ InScope(c, deckId, includeSubdecks)}

\* LIMIT 1
FirstCandidate(deckId, includeSubdecks) ==
    LET cand == Candidates(deckId, includeSubdecks)
    IN  IF cand = {} THEN NULL
        ELSE CHOOSE c \in cand : \A o \in cand \ {c} : OrderedBefore(c, o)

\* The deck ids getQueueInfo pushes onto params: every id twice.
QueueInfoParams(deckId, includeSubdecks) ==
    2 + (IF deckId = NULL THEN 0
         ELSE IF includeSubdecks THEN 2 * Cardinality(getDeckHierarchy(deckId)) ELSE 2)

\* The ? of the counting query: two for today, and the deck filter once.
QueueInfoPlaceholders(deckId, includeSubdecks) ==
    2 + (IF deckId = NULL THEN 0
         ELSE IF includeSubdecks THEN Cardinality(getDeckHierarchy(deckId)) ELSE 1)

\* db.get fails with SQLITE_RANGE when a bound parameter has no placeholder.
getQueueInfo(deckId, includeSubdecks) ==
    LET rows == {c \in DOMAIN cards : cards[c].state \notin {"suspended", "buried"}
                                 /\ InScope(c, deckId, includeSubdecks)}
        threw == QueueInfoParams(deckId, includeSubdecks)
                     > QueueInfoPlaceholders(deckId, includeSubdecks)
    IN  [ threw |-> threw,
          new |-> IF threw THEN NULL
                  ELSE Cardinality({c \in rows : cards[c].state = "new" /\ cards[c].due <= today}),
          reviews |-> IF threw THEN NULL
                      ELSE Cardinality({c \in rows :
                               cards[c].state \in {"review", "learning", "relearning"}
                               /\ cards[c].due <= today}) ]

\* Both return statements await getQueueInfo: its rejection is the call's result.
GetNextCard(deckId, includeSubdecks) ==
    /\ Admitted("anki_get_next_card")
    /\ LET info == getQueueInfo(deckId, includeSubdecks)
       IN  nextResult' = [ called |-> TRUE, threw |-> info.threw,
                           deckId |-> deckId, includeSubdecks |-> includeSubdecks,
                           card |-> IF info.threw THEN NULL
                                    ELSE FirstCandidate(deckId, includeSubdecks),
                           newCount |-> info.new,
                           reviewCount |-> info.reviews ]
    /\ UNCHANGED aux
    /\ UNCHANGED <<cards, decks, reviews, calls, ncalls, opsLeft, today, sIn, sOut, readonly, refused>>

\* --------------------------------------------------------------- the clock
\* Midnight passes: getDaysSinceEpoch() grows by one.
Tick ==
    /\ today < 1 + MaxDay
    /\ today' = today + 1
    /\ nextResult' = NoResult
    /\ UNCHANGED aux
    /\ UNCHANGED <<cards, decks, reviews, calls, ncalls, opsLeft, sIn, sOut, readonly, refused>>

Subsets == SUBSET CardIds

\* The tool calls that change the store, and the clock.
Next ==
    \/ \E k \in CallIds, c \in 1..(NumCards + 1), r \in Ratings : AnswerRead(k, c, r)
    \/ \E k \in CallIds : AnswerUpdate(k)
    \/ \E k \in CallIds : AnswerInsert(k)
    \/ \E ids \in Subsets \ {{}} : SuspendCards(ids)
    \/ \E ids \in Subsets \ {{}} : UnsuspendCards(ids)
    \/ \E ids \in Subsets \ {{}} : BuryCards(ids)
    \/ \E ids \in Subsets : UnburyCards(ids)
    \/ \E ids \in Subsets \ {{}} : ResetCards(ids)
    \/ \E d \in DeckIds, p \in Patches : ConfigSet(d, p)
    \/ Tick

Spec == Init /\ [][Next]_vars

\* The review queue: the same store and tool calls, with anki_get_next_card
\* observing the store after up to MaxQueueOps mutating calls.
InitQueue ==
    /\ cards = FixtureCards
    /\ decks = FixtureDecks
    /\ AuxInit
    /\ reviews = <<>>
    /\ calls = [k \in CallIds |-> IdleCall]
    /\ ncalls = 0
    /\ opsLeft = MaxQueueOps
    /\ today = 1
    /\ nextResult = NoResult
    /\ sIn = NoSched
    /\ sOut = NoSched
    /\ readonly = FALSE
    /\ refused = {}

NextQueue ==
    \/ Next
    \/ \E d \in DeckIds \cup {NULL}, sub \in BOOLEAN : GetNextCard(d, sub)

SpecQueue == InitQueue /\ [][NextQueue]_vars

\* ------------------------------------------------- the server in readonly
\* A call to a mutating tool while config.readonly is set: the dispatcher
\* throws before the handler runs.
Refuse(tool) ==
    /\ ~Admitted(tool)
    /\ opsLeft > 0
    /\ opsLeft' = opsLeft - 1
    /\ refused' = refused \cup {tool}
    /\ nextResult' = NoResult
    /\ UNCHANGED aux
    /\ UNCHANGED <<cards, decks, reviews, calls, ncalls, today, sIn, sOut, readonly>>

\* close() and a new start(): the database file stays, config.readonly is
\* what the new command line says.  No handler is in flight at close().
Restart(ro) ==
    /\ ro # readonly
    /\ \A k \in CallIds : calls[k].pc \notin {"updating", "inserting"}
    /\ readonly' = ro
    /\ nextResult' = NoResult
    /\ UNCHANGED aux
    /\ UNCHANGED <<cards, decks, reviews, calls, ncalls, opsLeft, today, sIn, sOut, refused>>

InitGate ==
    /\ cards = FixtureCards
    /\ decks = FixtureDecks
    /\ AuxInit
    /\ reviews = <<>>
    /\ calls = [k \in CallIds |-> IdleCall]
    /\ ncalls = 0
    /\ opsLeft = MaxGateOps
    /\ today = 1
    /\ nextResult = NoResult
    /\ sIn = NoSched
    /\ sOut = NoSched
    /\ readonly = FALSE
    /\ refused = {}

NextGate ==
    \/ Next
    \/ \E d \in DeckIds \cup {NULL}, sub \in BOOLEAN : GetNextCard(d, sub)
    \/ \E tool \in MutatingTools : Refuse(tool)
    \/ \E ro \in BOOLEAN : Restart(ro)

SpecGate == InitGate /\ [][NextGate]_vars

\* ----------------------------------------------- longer lives of the cards
\* Answers, suspensions and their reversal only, over MaxLifeOps calls.
InitLife ==
    /\ cards = FixtureCards
    /\ decks = FixtureDecks
    /\ AuxInit
    /\ reviews = <<>>
    /\ calls = [k \in CallIds |-> IdleCall]
    /\ ncalls = 0
    /\ opsLeft = MaxLifeOps
    /\ today = 1
    /\ nextResult = NoResult
    /\ sIn = NoSched
    /\ sOut = NoSched
    /\ readonly = FALSE
    /\ refused = {}

NextLife ==
    \/ \E k \in CallIds, c \in CardIds, r \in Ratings : AnswerRead(k, c, r)
    \/ \E k \in CallIds : AnswerUpdate(k)
    \/ \E k \in CallIds : AnswerInsert(k)
    \/ \E ids \in Subsets \ {{}} : SuspendCards(ids)
    \/ \E ids \in Subsets \ {{}} : UnsuspendCards(ids)

SpecLife == InitLife /\ [][NextLife]_vars

\* -------------------------------------------------- the Scheduler class
\* 1 + (Math.random() - 0.5) * 2 * fuzz, in hundredths, for a sampled term
getFuzzFactor(fuzz) == 100 + fuzz

scheduleNewCard(state, rating, config, day) ==
    IF rating = 4
    THEN LET i == CeilDiv(config.graduatingIntervalDays * config.easyBonus, 100)
         IN  [state EXCEPT !.state = "review", !.ivl = i, !.due = day + i, !.ease = 250 + 15]
    ELSE IF rating \in {1, 2, 3}
    THEN [state EXCEPT !.state = "learning", !.due = day, !.ivl = 0]
    ELSE state

scheduleLearningCard(state, rating, config, day) ==
    IF rating = 1
    THEN [state EXCEPT !.due = day, !.ivl = 0]
    ELSE IF rating \in {2, 3}
    THEN [state EXCEPT !.state = "review", !.ivl = config.graduatingIntervalDays,
                       !.due = day + config.graduatingIntervalDays]
    ELSE IF rating = 4
    THEN LET i == CeilDiv(config.graduatingIntervalDays * config.easyBonus, 100)
         IN  [state EXCEPT !.state = "review", !.ivl = i, !.due = day + i, !.ease = @ + 15]
    ELSE state

\* "Ensure minimum interval": runs after every branch of the rating switch.
EnsureMinimumInterval(state, day) ==
    IF state.ivl < 1 THEN [state EXCEPT !.ivl = 1, !.due = day + 1] ELSE state

scheduleReviewCard(state, rating, config, day, fuzz) ==
    LET s1 ==
          CASE rating = 1 ->
                 LET lapsed == [state EXCEPT !.lapses = @ + 1, !.state = "relearning",
                                             !.ease = Max(config.minEase, state.ease - 20),
                                             !.due = day, !.ivl = 0]
                 IN  IF lapsed.lapses >= config.leechThreshold /\ config.leechAction = "suspend"
                     THEN [lapsed EXCEPT !.state = "suspended"]
                     ELSE lapsed
            [] rating = 2 ->
                 LET i == CeilDiv(state.ivl * config.hardInterval * getFuzzFactor(fuzz), 10000)
                 IN  [state EXCEPT !.ease = Max(config.minEase, state.ease - 15),
                                   !.ivl = i, !.due = day + i]
            [] rating = 3 ->
                 LET i == CeilDiv(state.ivl * state.ease * getFuzzFactor(fuzz), 10000)
                 IN  [state EXCEPT !.ivl = i, !.due = day + i]
            [] rating = 4 ->
                 LET e == state.ease + 15
                     i == CeilDiv(state.ivl * e * config.easyBonus * getFuzzFactor(fuzz), 1000000)
                 IN  [state EXCEPT !.ease = e, !.ivl = i, !.due = day + i]
            [] OTHER -> state
    IN  EnsureMinimumInterval(s1, day)

\* Scheduler.scheduleCard; `threw` stands for "Invalid card state".
scheduleCard(card, rating, config, day, fuzz) ==
    LET beforeState == [ state |-> card.state, due |-> card.due, ivl |-> card.ivl,
                         ease |-> card.ease, reps |-> card.reps, lapses |-> card.lapses ]
    IN  CASE card.state = "new" ->
               [ threw |-> FALSE,
                 afterState |-> scheduleNewCard([beforeState EXCEPT !.reps = @ + 1],
                                                rating, config, day) ]
          [] card.state \in {"learning", "relearning"} ->
               [ threw |-> FALSE,
                 afterState |-> scheduleLearningCard(beforeState, rating, config, day) ]
          [] card.state = "review" ->
               [ threw |-> FALSE,
                 afterState |-> scheduleReviewCard([beforeState EXCEPT !.reps = @ + 1],
                                                   rating, config, day, fuzz) ]
          [] OTHER -> [ threw |-> TRUE, afterState |-> beforeState ]

\* ------------------------------------- the scheduling functions on inputs
SchedIvls == {0, 1, 2, 10}
SchedEases == {130, 140, 250, 265}
SchedLapses == {0, 7}
SchedReps == {0, 3}
SchedDues == {0, 1}

SchedConfigs ==
    { getDefaultConfig,
      [getDefaultConfig EXCEPT !.leechAction = "tag"],
      [getDefaultConfig EXCEPT !.fuzzPercent = 0, !.graduatingIntervalDays = 2],
      [getDefaultConfig EXCEPT !.minEase = 200, !.leechThreshold = 1] }

SchedInputs ==
    { [ card |-> [ state |-> st, due |-> du, ivl |-> iv, ease |-> ea, reps |-> re,
                   lapses |-> la ],
        rating |-> r, config |-> cfg, fuzz |-> fz ] :
        st \in CardStates, du \in SchedDues, iv \in SchedIvls, ea \in SchedEases,
        re \in SchedReps, la \in SchedLapses, r \in Ratings, cfg \in SchedConfigs,
        fz \in {0 - 5, 0, 4} }

NoOutputs == [ tool |-> NoSched, sched |-> NoSched ]

InitSched ==
    /\ cards = FixtureCards
    /\ decks = FixtureDecks
    /\ AuxInit
    /\ reviews = <<>>
    /\ calls = [k \in CallIds |-> IdleCall]
    /\ ncalls = 0
    /\ opsLeft = 0
    /\ today = 1
    /\ nextResult = NoResult
    /\ sIn \in {i \in SchedInputs : i.fuzz \in FuzzSamples(i.config.fuzzPercent)}
    /\ sOut = NoOutputs
    /\ readonly = FALSE
    /\ refused = {}

\* applyScheduling(beforeState, rating, config) as anki_answer_card calls it
RunApplyScheduling ==
    /\ sOut.tool = NoSched
    /\ sOut' = [sOut EXCEPT !.tool = applyScheduling(BeforeState(sIn.card), sIn.rating,
                                                     sIn.config, today, sIn.fuzz)]
    /\ UNCHANGED aux
    /\ UNCHANGED <<cards, decks, reviews, calls, ncalls, opsLeft, today, nextResult, sIn,
                   readonly, refused>>

\* new Scheduler(config).scheduleCard(card, rating)
RunScheduleCard ==
    /\ sOut.sched = NoSched
    /\ sOut' = [sOut EXCEPT !.sched = scheduleCard(sIn.card, sIn.rating, sIn.config,
                                                   today, sIn.fuzz)]
    /\ UNCHANGED aux
    /\ UNCHANGED <<cards, decks, reviews, calls, ncalls, opsLeft, today, nextResult, sIn,
                   readonly, refused>>

NextSched == RunApplyScheduling \/ RunScheduleCard

SpecSched == InitSched /\ [][NextSched]_vars

\* ------------------------------------------- decks, notes, cards: the tables
\* { ...a, ...b }
Spread(a, b) ==
    [f \in DOMAIN a \cup DOMAIN b |-> IF f \in DOMAIN b THEN b[f] ELSE a[f]]

\* A table with one more row / without some rows.
WithRow(table, id, row) ==
    [i \in DOMAIN table \cup {id} |-> IF i = id THEN row ELSE table[i]]

WithoutRows(table, ids) == [i \in DOMAIN table \ ids |-> table[i]]

\* The rows of reviews.
LiveReviews == {i \in 1..Len(reviews) : i \notin deletedReviews}

\* A call of a tool or repository method that works on the tables.
StoreOp ==
    /\ opsLeft > 0
    /\ opsLeft' = opsLeft - 1
    /\ nextResult' = NoResult
    /\ UNCHANGED <<calls, ncalls, today, sIn, sOut, readonly, refused, imp, exported>>

\* anki.create_deck: parent "" stands for an absent parent.  The INSERT fails
\* on a store error and on a name that exists (name TEXT UNIQUE).
CreateDeck(name, parent, configOverride) ==
    /\ Admitted("anki.create_deck")
    /\ StoreOp
    /\ LET config == Spread(getDefaultConfig, configOverride)
           parentRows == {d \in DOMAIN decks : decks[d].name = parent}
           id == seq.decks + 1
       IN  \E ok \in BOOLEAN :
             IF /\ ok
                /\ parent = "" \/ parentRows # {}
                /\ \A d \in DOMAIN decks : decks[d].name # name
             THEN /\ decks' = WithRow(decks, id,
                                  [ name |-> name,
                                    parent_id |-> IF parent = "" THEN NULL
                                                  ELSE CHOOSE d \in parentRows : TRUE,
                                    config |-> config ])
                  /\ seq' = [seq EXCEPT !.decks = id]
             ELSE UNCHANGED <<decks, seq>>
    /\ UNCHANGED <<cards, notes, reviews, deletedReviews, del>>

\* DeckRepository.update(id, { parent_id }): UPDATE decks SET parent_id = ?
\* WHERE id = ?, which FOREIGN KEY (parent_id) REFERENCES decks(id) fails when
\* no deck has that id.
DeckUpdate(id, parent_id) ==
    /\ StoreOp
    /\ \E ok \in BOOLEAN :
         IF ok /\ id \in DOMAIN decks /\ (parent_id = NULL \/ parent_id \in DOMAIN decks)
         THEN decks' = [decks EXCEPT ![id].parent_id = parent_id]
         ELSE UNCHANGED decks
    /\ UNCHANGED <<cards, notes, reviews, deletedReviews, seq, del>>

\* DeckRepository.findChildren
findChildren(parentId) == {d \in DOMAIN decks : decks[d].parent_id = parentId}

\* DeckRepository.delete: refuses a deck with child decks or notes.
DeckDelete(id) ==
    /\ StoreOp
    /\ \E ok \in BOOLEAN :
         IF /\ ok
            /\ findChildren(id) = {}
            /\ {n \in DOMAIN notes : notes[n].deck_id = id} = {}
         THEN decks' = WithoutRows(decks, {id})
         ELSE UNCHANGED decks
    /\ UNCHANGED <<cards, notes, reviews, deletedReviews, seq, del>>

\* anki.add_note: fields.back "" stands for a missing or empty back.
AddNote(deckId, model, fields) ==
    /\ Admitted("anki.add_note")
    /\ StoreOp
    /\ LET id == seq.notes + 1
       IN  \E ok \in BOOLEAN :
             IF /\ ok
                /\ deckId \in DOMAIN decks
                /\ ~(model = "basic" /\ fields.back = "")
             THEN /\ notes' = WithRow(notes, id,
                                  [ deck_id |-> deckId, model |-> model, fields |-> fields,
                                    tags |-> "" ])
                  /\ seq' = [seq EXCEPT !.notes = id]
             ELSE UNCHANGED <<notes, seq>>
    /\ UNCHANGED <<cards, decks, reviews, deletedReviews, del>>

\* text.match(/\{\{c(\d+)::[^}]+\}\}/g) mapped to the numbers: the cloze
\* numbers of the markers of the text, in the order of the text.
ClozeMatches(text) ==
    CASE text = "{{c1::x}}"           -> <<1>>
      [] text = "{{c2::x}} {{c1::y}}" -> <<2, 1>>
      [] text = "{{c1::x}} {{c1::y}}" -> <<1, 1>>
      [] OTHER                        -> <<>>

\* [...new Set(list)]: the distinct elements in the order of their first
\* occurrence
RECURSIVE Distinct(_)
Distinct(list) ==
    IF list = <<>> THEN <<>>
    ELSE LET init == Distinct(SubSeq(list, 1, Len(list) - 1))
             last == list[Len(list)]
         IN  IF \E i \in 1..Len(init) : init[i] = last THEN init ELSE Append(init, last)

\* `cloze-${clozeNum}`
ClozeTemplate(clozeNum) == <<"cloze-1", "cloze-2", "cloze-3">>[clozeNum]

\* The templates the switch on the model inserts a card for; a cloze note
\* gets one card per distinct cloze number of its front, and a model without
\* a case gets none.
TemplatesOf(note) ==
    CASE note.model = "basic" -> <<"forward">>
      [] note.model = "basic_reverse" -> <<"forward", "reverse">>
      [] note.model = "cloze" ->
           LET clozeNumbers == Distinct(ClozeMatches(note.fields.front))
           IN  [i \in 1..Len(clozeNumbers) |-> ClozeTemplate(clozeNumbers[i])]
      [] OTHER -> <<>>

\* The table cards after one INSERT per template for the note.
WithCards(table, noteId, first, templates) ==
    [c \in DOMAIN table \cup first..(first + Len(templates) - 1) |->
        IF c \in DOMAIN table THEN table[c] ELSE NewCard(noteId, templates[c - first + 1])]

\* What a call of anki.generate_cards_for_note ends with: the ids it
\* returns, or the message it throws.
Generated(noteId, error, first, n) ==
    [ called |-> FALSE, noteId |-> noteId, error |-> error,
      cardIds |-> [i \in 1..n |-> first + i - 1] ]

\* anki.generate_cards_for_note: one INSERT per template, each committed on
\* its own; a store error at the INSERT after the first `n` ends the call
\* (n = -1: at the SELECT of the note).  A model without a case throws.
GenerateCards(noteId) ==
    /\ Admitted("anki.generate_cards_for_note")
    /\ opsLeft > 0
    /\ opsLeft' = opsLeft - 1
    /\ IF noteId \notin DOMAIN notes
       THEN /\ \E ok \in BOOLEAN :
                 nextResult' = Generated(noteId, IF ok THEN "Note not found" ELSE "SQLITE_ERROR",
                                         seq.cards + 1, 0)
            /\ UNCHANGED <<cards, seq>>
       ELSE IF notes[noteId].model \notin {"basic", "basic_reverse", "cloze"}
       THEN /\ \E ok \in BOOLEAN :
                 nextResult' = Generated(noteId, IF ok THEN "Unsupported model" ELSE "SQLITE_ERROR",
                                         seq.cards + 1, 0)
            /\ UNCHANGED <<cards, seq>>
       ELSE LET templates == TemplatesOf(notes[noteId])
            IN  \E n \in (0 - 1)..Len(templates) :
                  LET done == IF n < 0 THEN 0 ELSE n
                  IN  /\ cards' = WithCards(cards, noteId, seq.cards + 1,
                                            SubSeq(templates, 1, done))
                      /\ seq' = [seq EXCEPT !.cards = seq.cards + done]
                      /\ nextResult' = Generated(noteId,
                                                 IF n = Len(templates) THEN "" ELSE "SQLITE_ERROR",
                                                 seq.cards + 1, done)
    /\ UNCHANGED <<decks, notes, reviews, deletedReviews, del>>
    /\ UNCHANGED <<calls, ncalls, today, sIn, sOut, readonly, refused, imp, exported>>

\* anki_delete_cards, first statement: DELETE FROM reviews WHERE card_id IN
\* (cardIds).  On an error the handler throws.
DeleteCardsReviews(cardIds) ==
    /\ Admitted("anki_delete_cards")
    /\ StoreOp
    /\ del.pc # "cards"
    /\ \E ok \in BOOLEAN :
         IF ok
         THEN /\ deletedReviews' =
                    deletedReviews \cup {i \in LiveReviews : reviews[i].card_id \in cardIds}
              /\ del' = [pc |-> "cards", cardIds |-> cardIds]
         ELSE /\ del' = [pc |-> "failed", cardIds |-> cardIds]
              /\ UNCHANGED deletedReviews
    /\ UNCHANGED <<cards, decks, notes, reviews, seq>>

\* The DELETE FROM cards with no foreign key on reviews.card_id
DeleteFromCardsFails_noForeignKey(cardIds) == FALSE

\* FOREIGN KEY (card_id) REFERENCES cards(id): the DELETE FROM cards fails,
\* and deletes no row, when a row of reviews references one of its cards.
DeleteFromCardsFails(cardIds) ==
    \E i \in LiveReviews : reviews[i].card_id \in cardIds /\ reviews[i].card_id \in DOMAIN cards

\* anki_delete_cards, second statement.
DeleteCardsCards ==
    /\ del.pc = "cards"
    /\ \E ok \in BOOLEAN :
         IF ok /\ ~DeleteFromCardsFails(del.cardIds)
         THEN /\ cards' = WithoutRows(cards, del.cardIds)
              /\ del' = [del EXCEPT !.pc = "done"]
         ELSE /\ del' = [del EXCEPT !.pc = "failed"]
              /\ UNCHANGED cards
    /\ nextResult' = NoResult
    /\ UNCHANGED <<decks, notes, reviews, deletedReviews, seq, imp, exported, calls, ncalls, opsLeft,
                   today, sIn, sOut, readonly, refused>>

\* CardRepository.delete(cardIds): the DELETE FROM cards alone.
RepoDeleteCards(cardIds) ==
    /\ StoreOp
    /\ \E ok \in BOOLEAN :
         IF ok /\ ~DeleteFromCardsFails(cardIds)
         THEN cards' = WithoutRows(cards, cardIds)
         ELSE UNCHANGED cards
    /\ UNCHANGED <<decks, notes, reviews, deletedReviews, seq, del>>

\* ------------------------------------------------- the tables under change
\* The configOverride / patch values the model submits: a minEase below 1.3,
\* a step of 1.5 minutes, an empty step list with half a card per day, a
\* step of 0 with an unknown leechAction.
StoreOverrides == { [minEase |-> 100], [learningStepsMins |-> <<150>>] }

StorePatches ==
    { [leechThreshold |-> 1],
      [learningStepsMins |-> <<150>>],
      [lapseStepsMins |-> <<>>, newPerDay |-> 50],
      [learningStepsMins |-> <<0>>, leechAction |-> "delete"] }

InitStore ==
    /\ cards = FixtureCards
    /\ decks = FixtureDecks
    /\ AuxInit
    /\ reviews = <<>>
    /\ calls = [k \in CallIds |-> IdleCall]
    /\ ncalls = 0
    /\ opsLeft = MaxStoreOps
    /\ today = 1
    /\ nextResult = NoResult
    /\ sIn = NoSched
    /\ sOut = NoSched
    /\ readonly = FALSE
    /\ refused = {}

\* Every id of the table and one that is not in it.
IdsAndOneMore(table, last) == DOMAIN table \cup {last + 1}

NextStore ==
    \/ \E k \in CallIds, c \in IdsAndOneMore(cards, seq.cards), r \in {1, 3} :
            AnswerRead(k, c, r)
    \/ \E k \in CallIds : AnswerUpdate(k)
    \/ \E k \in CallIds : AnswerInsert(k)
    \/ \E parent \in {"", "A", "Z"} : CreateDeck("X", parent, <<>>)
    \/ \E name \in {"X", "A"}, o \in StoreOverrides : CreateDeck(name, "", o)
    \/ \E d \in DOMAIN decks, p \in IdsAndOneMore(decks, seq.decks) \cup {NULL} : DeckUpdate(d, p)
    \/ \E d \in DOMAIN decks : DeckDelete(d)
    \/ \E d \in IdsAndOneMore(decks, seq.decks) : AddNote(d, "basic", [front |-> "q", back |-> "a"])
    \/ \E n \in IdsAndOneMore(notes, seq.notes) : GenerateCards(n)
    \/ \E ids \in SUBSET (DOMAIN cards) \ {{}} : DeleteCardsReviews(ids)
    \/ DeleteCardsCards
    \/ \E c \in DOMAIN cards : RepoDeleteCards({c})
    \/ \E d \in IdsAndOneMore(decks, seq.decks), p \in StorePatches : ConfigSet(d, p)
    \/ \E d \in DOMAIN decks : ConfigReset(d)

SpecStore == InitStore /\ [][NextStore]_vars

\* -------------------------------------------------------------- anki_import
\* A parsed record is [deck, model, fields]: deck "" stands for no deck
\* column / no "### Deck:" line, and fields has the keys the parser found.
\* record.back || '' and fields.back || ''
BackOf(fields) == IF "back" \in DOMAIN fields THEN fields.back ELSE ""

\* tags.join(' ') of the tags the parser found ("" when it found none)
TagsOf(record) == IF "tags" \in DOMAIN record THEN record.tags ELSE ""

\* The fields object createNote serialises: the CSV importer always builds
\* { front, back, extra }, the Markdown importer passes the parsed fields on.
StoredFields(format, fields) ==
    IF format = "csv" THEN [front |-> fields.front, back |-> BackOf(fields)] ELSE fields

\* LIKE compares ASCII letters without regard to case.
Fold(v) == IF v = "Q" THEN "q" ELSE v

\* fields_json LIKE '%"key":"value"%' on JSON.stringify(fields)
Like(fields, key, value) == key \in DOMAIN fields /\ Fold(fields[key]) = Fold(value)

\* checkDuplicate(deckName, front, back)
checkDuplicate(deckName, front, back) ==
    \E n \in DOMAIN notes :
        /\ decks[notes[n].deck_id].name = deckName
        /\ Like(notes[n].fields, "front", front)
        /\ Like(notes[n].fields, "back", back)

\* getCardCount(model, fields)
getCardCount(model, fields) ==
    CASE model = "basic" -> 1
      [] model = "basic_reverse" -> 2
      [] model = "cloze" -> Len(TemplatesOf([model |-> model, fields |-> fields]))
      [] OTHER -> 1

\* results.errors.push({ row: i + 1, ... }) of the CSV importer and
\* ({ index: i, ... }) of the Markdown importer, for the i-th record counted
\* from 1.
ErrorEntry(format, i, message) ==
    [ row |-> IF format = "csv" THEN i ELSE i - 1, error |-> message ]

\* import(): the options are read, the payload is parsed, and
\* ensureDeckExists(deckDefault) inserts the default deck when no deck has
\* that name; a store error there ends the call.
ImportStart(format, records, deckDefault, dedupe, dryRun) ==
    /\ Admitted("anki_import")
    /\ opsLeft > 0
    /\ opsLeft' = opsLeft - 1
    /\ imp.pc # "running"
    /\ \E ok \in BOOLEAN :
         LET running == [ pc |-> "running", format |-> format, records |-> records, i |-> 1,
                          deckDefault |-> deckDefault, dedupe |-> dedupe, dryRun |-> dryRun,
                          insertedNotes |-> 0, insertedCards |-> 0, errors |-> {} ]
         IN  IF \E d \in DOMAIN decks : decks[d].name = deckDefault
             THEN /\ imp' = running
                  /\ UNCHANGED <<decks, seq>>
             ELSE IF ok
                  THEN /\ decks' = WithRow(decks, seq.decks + 1,
                                       [ name |-> deckDefault, parent_id |-> NULL,
                                         config |-> getDefaultConfig ])
                       /\ seq' = [seq EXCEPT !.decks = seq.decks + 1]
                       /\ imp' = running
                  ELSE /\ imp' = [pc |-> "failed"]
                       /\ UNCHANGED <<decks, seq>>
    /\ nextResult' = NoResult
    /\ UNCHANGED <<cards, notes, reviews, deletedReviews, del, exported, calls, ncalls, today,
                   sIn, sOut, readonly, refused>>

\* The frame after record imp.i: the loop moves on, and returns the results
\* after the last record.
AfterRecord(insertedNotes, insertedCards, errors) ==
    [imp EXCEPT !.i = imp.i + 1,
                !.pc = IF imp.i = Len(imp.records) THEN "done" ELSE "running",
                !.insertedNotes = insertedNotes,
                !.insertedCards = insertedCards,
                !.errors = errors]

\* One iteration of the loop: processRecord on record imp.i inside try/catch.
\* createNote and every createCard is an INSERT committed on its own; the
\* store may reject any of them: `done` is -1 when it rejects the note, the
\* number of cards inserted before the rejected one, or the number of
\* templates when it rejects nothing.
ImportRecord ==
    /\ imp.pc = "running"
    /\ LET record == imp.records[imp.i]
           deck == IF record.deck = "" THEN imp.deckDefault ELSE record.deck
           model == record.model
           fields == record.fields
           front == fields.front
           back == BackOf(fields)
           stored == StoredFields(imp.format, fields)
           templates == TemplatesOf([model |-> model, fields |-> stored])
           deckRows == {d \in DOMAIN decks : decks[d].name = deck}
           failed(message) ==
               AfterRecord(imp.insertedNotes, imp.insertedCards,
                           imp.errors \cup {ErrorEntry(imp.format, imp.i, message)})
       IN  IF front = ""
           THEN /\ imp' = failed("Front field is required")
                /\ UNCHANGED <<notes, cards, seq>>
           ELSE IF model = "basic" /\ back = ""
           THEN /\ imp' = failed("Back field is required for basic model")
                /\ UNCHANGED <<notes, cards, seq>>
           ELSE IF imp.dedupe /\ checkDuplicate(deck, front, back)
           THEN /\ imp' = AfterRecord(imp.insertedNotes, imp.insertedCards, imp.errors)
                /\ UNCHANGED <<notes, cards, seq>>
           ELSE IF imp.dryRun
           THEN /\ imp' = AfterRecord(imp.insertedNotes + 1,
                                      imp.insertedCards + getCardCount(model, stored),
                                      imp.errors)
                /\ UNCHANGED <<notes, cards, seq>>
           ELSE IF deckRows = {}
           THEN /\ imp' = failed("Deck not found")
                /\ UNCHANGED <<notes, cards, seq>>
           ELSE \E done \in (0 - 1)..Len(templates) :
                  IF done = 0 - 1
                  THEN /\ imp' = failed("SQLITE_ERROR")
                       /\ UNCHANGED <<notes, cards, seq>>
                  ELSE LET noteId == seq.notes + 1
                           n == done
                       IN  /\ notes' = WithRow(notes, noteId,
                                            [ deck_id |-> CHOOSE d \in deckRows : TRUE,
                                              model |-> model, fields |-> stored,
                                              tags |-> TagsOf(record) ])
                           /\ cards' = WithCards(cards, noteId, seq.cards + 1,
                                               SubSeq(templates, 1, n))
                           /\ seq' = [seq EXCEPT !.notes = noteId, !.cards = seq.cards + n]
                           /\ imp' = IF done = Len(templates)
                                      THEN AfterRecord(imp.insertedNotes + 1,
                                                       imp.insertedCards + n, imp.errors)
                                      ELSE [failed("SQLITE_ERROR") EXCEPT
                                               !.insertedNotes = imp.insertedNotes + 1]
    /\ nextResult' = NoResult
    /\ UNCHANGED <<decks, reviews, deletedReviews, del, exported, calls, ncalls, opsLeft, today,
                   sIn, sOut, readonly, refused>>

\* The parsed records the model imports: a basic note, the same with the
\* front in capitals (for a deck that does not exist, and for the default
\* deck), a cloze note (without a back), a basic note without a back, and a
\* note with a reverse card.
RecordBasic == [ deck |-> "", model |-> "basic", fields |-> [front |-> "q", back |-> "a"] ]

RecordNewDeck == [ deck |-> "X", model |-> "basic", fields |-> [front |-> "Q", back |-> "a"] ]

RecordCapitals == [ deck |-> "", model |-> "basic", fields |-> [front |-> "Q", back |-> "a"] ]

RecordCloze == [ deck |-> "", model |-> "cloze", fields |-> [front |-> "{{c1::x}}"] ]

RecordNoBack == [ deck |-> "", model |-> "basic", fields |-> [front |-> "q"] ]

RecordReverse ==
    [ deck |-> "", model |-> "basic_reverse", fields |-> [front |-> "q", back |-> "a"] ]

Payloads ==
    { <<RecordBasic>>, <<RecordNewDeck>>, <<RecordCapitals>>, <<RecordCloze>>, <<RecordReverse>>,
      <<RecordNoBack, RecordBasic>>, <<RecordBasic, RecordNoBack>>, <<RecordBasic, RecordBasic>> }

InitImport ==
    /\ cards = FixtureCards
    /\ decks = FixtureDecks
    /\ AuxInit
    /\ reviews = <<>>
    /\ calls = [k \in CallIds |-> IdleCall]
    /\ ncalls = 0
    /\ opsLeft = MaxImportOps
    /\ today = 1
    /\ nextResult = NoResult
    /\ sIn = NoSched
    /\ sOut = NoSched
    /\ readonly = FALSE
    /\ refused = {}

NextImport ==
    \/ \E format \in {"csv", "markdown"}, records \in Payloads,
          deckDefault \in {"Inbox", "B"}, dedupe \in BOOLEAN, dryRun \in BOOLEAN :
            ImportStart(format, records, deckDefault, dedupe, dryRun)
    \/ ImportRecord

SpecImport == InitImport /\ [][NextImport]_vars

\* ------------------------------------------------ the queue with positions
\* CardRepository.update(id, { queue_position }): UPDATE cards SET
\* queue_position = ? WHERE id = ?
RepoUpdateCard(id, queue_position) ==
    /\ StoreOp
    /\ \E ok \in BOOLEAN :
         IF ok
         THEN cards' = [c \in DOMAIN cards |->
                           IF c = id THEN [cards[c] EXCEPT !.queue_position = queue_position]
                           ELSE cards[c]]
         ELSE UNCHANGED cards
    /\ UNCHANGED <<decks, notes, reviews, deletedReviews, seq, del>>

InitOrder ==
    /\ cards = FixtureCards
    /\ decks = FixtureDecks
    /\ AuxInit
    /\ reviews = <<>>
    /\ calls = [k \in CallIds |-> IdleCall]
    /\ ncalls = 0
    /\ opsLeft = MaxOrderOps
    /\ today = 1
    /\ nextResult = NoResult
    /\ sIn = NoSched
    /\ sOut = NoSched
    /\ readonly = FALSE
    /\ refused = {}

NextOrder ==
    \/ \E c \in CardIds, q \in 1..NumCards : RepoUpdateCard(c, q)
    \/ \E k \in CallIds, c \in CardIds, r \in Ratings : AnswerRead(k, c, r)
    \/ \E k \in CallIds : AnswerUpdate(k)
    \/ \E k \in CallIds : AnswerInsert(k)
    \/ \E d \in DeckIds \cup {NULL}, sub \in BOOLEAN : GetNextCard(d, sub)

SpecOrder == InitOrder /\ [][NextOrder]_vars

\* -------------------------------------------------------- anki_search_cards
\* Strings are read here lexeme by lexeme: a word, a number, or one of the
\* characters the code looks at.
DQ == "\""
SP == " "
CL == ":"

\* The characters of a string of the store (a name, a field text, a tag list).
Lexemes(s) ==
    CASE s = "Spanish::Basics"   -> <<"Spanish", CL, CL, "Basics">>
      [] s = "Spanish::Advanced" -> <<"Spanish", CL, CL, "Advanced">>
      [] s = "to be"             -> <<"to", SP, "be">>
      [] s = "verb irregular"    -> <<"verb", SP, "irregular">>
      [] s = ""                  -> <<>>
      [] OTHER                   -> <<s>>

\* String.prototype.trim
RECURSIVE Trim(_)
Trim(s) ==
    IF s = <<>> THEN s
    ELSE IF Head(s) = SP THEN Trim(Tail(s))
    ELSE IF s[Len(s)] = SP THEN Trim(SubSeq(s, 1, Len(s) - 1))
    ELSE s

\* The loop of tokenizeQuery from character i on.
RECURSIVE tokenizeFrom(_, _, _, _, _)
tokenizeFrom(query, i, current, inQuotes, tokens) ==
    IF i > Len(query)
    THEN IF Trim(current) # <<>> THEN Append(tokens, Trim(current)) ELSE tokens
    ELSE LET char == query[i]
         IN  IF char = DQ
             THEN tokenizeFrom(query, i + 1, Append(current, char), ~inQuotes, tokens)
             ELSE IF char = SP /\ ~inQuotes
             THEN IF Trim(current) # <<>>
                  THEN tokenizeFrom(query, i + 1, <<>>, inQuotes,
                                    Append(tokens, Trim(current)))
                  ELSE tokenizeFrom(query, i + 1, current, inQuotes, tokens)
             ELSE tokenizeFrom(query, i + 1, Append(current, char), inQuotes, tokens)

tokenizeQuery(query) == tokenizeFrom(query, 1, <<>>, FALSE, <<>>)

\* The index of the first x in s, 0 when there is none.
IndexOf(s, x) ==
    IF \E i \in 1..Len(s) : s[i] = x
    THEN CHOOSE i \in 1..Len(s) : s[i] = x /\ \A j \in 1..(i - 1) : s[j] # x
    ELSE 0

\* token.split(sep, 2): the text before the first separator and the text
\* between the first and the second one (to the end when there is no second).
SplitTwo(token, sep) ==
    LET i    == IndexOf(token, sep)
        rest == SubSeq(token, i + 1, Len(token))
        j    == IndexOf(rest, sep)
    IN  [ key   |-> SubSeq(token, 1, i - 1),
          value |-> IF j = 0 THEN rest ELSE SubSeq(rest, 1, j - 1) ]

\* value.replace(/"/g, '')
StripQuotes(value) == SelectSeq(value, LAMBDA x : x # DQ)

\* Number(text); NaN is bound as NULL
Number(text) ==
    CASE text = <<>>    -> 0
      [] text = <<"0">> -> 0
      [] text = <<"1">> -> 1
      [] OTHER          -> NULL

NoCondition == [ kind |-> "none", text |-> <<>>, lo |-> 0, hi |-> 0 ]

Condition(kind, text, lo, hi) == [ kind |-> kind, text |-> text, lo |-> lo, hi |-> hi ]

\* Math.floor(Date.now() / 1000) on the clock the invocations are stamped with
Now == ncalls

SecondsPerDay == 86400

\* The condition one token pushes (kind "none" when it pushes nothing); kv is
\* the key and the value the token was split into at its colon.
ConditionOf(token, kv) ==
    IF IndexOf(token, CL) # 0
    THEN LET key   == kv.key
             value == kv.value
             v     == StripQuotes(value)
         IN  CASE key = <<"deck">> -> Condition("deck", v, 0, 0)
               [] key = <<"tag">>  -> Condition("tag", v, 0, 0)
               [] key = <<"is">> ->
                    (CASE value = <<"due">>       -> Condition("is:due", <<>>, today, 0)
                       [] value = <<"new">>       -> Condition("is:new", <<>>, 0, 0)
                       [] value = <<"review">>    -> Condition("is:review", <<>>, 0, 0)
                       [] value = <<"learning">>  -> Condition("is:learning", <<>>, 0, 0)
                       [] value = <<"suspended">> -> Condition("is:suspended", <<>>, 0, 0)
                       [] value = <<"buried">>    -> Condition("is:buried", <<>>, 0, 0)
                       [] OTHER                   -> NoCondition)
               [] key = <<"rated">> ->
                    LET k == IndexOf(v, "..")
                    IN  IF k # 0
                        THEN LET start == Number(SubSeq(v, 1, k - 1))
                                 end   == Number(SubSeq(v, k + 1, Len(v)))
                             IN  Condition("rated:between", <<>>,
                                           IF end = NULL THEN NULL
                                           ELSE Now - end * SecondsPerDay,
                                           IF start = NULL THEN NULL
                                           ELSE Now - start * SecondsPerDay)
                        ELSE Condition("rated:since", <<>>,
                                       IF Number(v) = NULL THEN NULL
                                       ELSE Now - Number(v) * SecondsPerDay, 0)
               [] key = <<"prop">> ->
                    IF v # <<>> /\ Head(v) \in {"ivl>", "ivl<", "ease>", "ease<"}
                    THEN Condition(Head(v), <<>>, Number(Tail(v)), 0)
                    ELSE NoCondition
               [] key = <<"note">> -> Condition("fields", v, 0, 0)
               [] OTHER -> NoCondition
    ELSE LET plainText == StripQuotes(token)
         IN  IF Trim(plainText) # <<>> THEN Condition("fields", plainText, 0, 0)
             ELSE NoCondition

\* parseSearchQuery: the conditions of the WHERE clause with their parameters
parseSearchQuery(query) ==
    LET tokens == tokenizeQuery(query)
    IN  SelectSeq([i \in 1..Len(tokens) |->
                      ConditionOf(tokens[i], SplitTwo(tokens[i], CL))],
                  LAMBDA c : c.kind # "none")

\* LIKE compares ASCII letters without regard to case.
FoldAll(s) == [i \in 1..Len(s) |-> Fold(s[i])]

\* s LIKE '%p%', s LIKE 'p%', s LIKE '%p'
Contains(s, p) ==
    \E i \in 0..(Len(s) - Len(p)) : SubSeq(FoldAll(s), i + 1, i + Len(p)) = FoldAll(p)

StartsWith(s, p) == Len(p) <= Len(s) /\ SubSeq(FoldAll(s), 1, Len(p)) = FoldAll(p)

EndsWith(s, p) ==
    Len(p) <= Len(s) /\ SubSeq(FoldAll(s), Len(s) - Len(p) + 1, Len(s)) = FoldAll(p)

\* JSON.stringify(fields) of a note stored with front and back
FieldsJson(fields) ==
    <<"{", DQ, "front", DQ, CL, DQ>> \o Lexemes(fields.front)
        \o <<DQ, ",", DQ, "back", DQ, CL, DQ>> \o Lexemes(fields.back) \o <<DQ, "}">>

\* One condition of the WHERE clause on the joined row of card c.
Satisfies(c, cond) ==
    LET row  == cards[c]
        note == notes[row.note_id]
        tags == Lexemes(note.tags)
    IN  CASE cond.kind = "deck" -> Contains(Lexemes(decks[note.deck_id].name), cond.text)
          [] cond.kind = "tag" ->
               \/ StartsWith(tags, cond.text \o <<SP>>)
               \/ Contains(tags, <<SP>> \o cond.text \o <<SP>>)
               \/ EndsWith(tags, <<SP>> \o cond.text)
               \/ tags = cond.text
          [] cond.kind = "is:due" ->
               row.due <= cond.lo /\ row.state \in {"review", "learning", "relearning"}
          [] cond.kind = "is:new" -> row.state = "new"
          [] cond.kind = "is:review" -> row.state = "review"
          [] cond.kind = "is:learning" -> row.state \in {"learning", "relearning"}
          [] cond.kind = "is:suspended" -> row.state = "suspended"
          [] cond.kind = "is:buried" -> row.state = "buried"
          [] cond.kind = "rated:between" ->
               /\ cond.lo # NULL /\ cond.hi # NULL
               /\ \E i \in 1..Len(reviews) :
                      /\ reviews[i].card_id = c
                      /\ cond.lo <= reviews[i].ts /\ reviews[i].ts <= cond.hi
          [] cond.kind = "rated:since" ->
               /\ cond.lo # NULL
               /\ \E i \in 1..Len(reviews) : reviews[i].card_id = c /\ reviews[i].ts >= cond.lo
          [] cond.kind = "ivl>" -> cond.lo # NULL /\ row.ivl > cond.lo
          [] cond.kind = "ivl<" -> cond.lo # NULL /\ row.ivl < cond.lo
          [] cond.kind = "ease>" -> cond.lo # NULL /\ row.ease > 100 * cond.lo
          [] cond.kind = "ease<" -> cond.lo # NULL /\ row.ease < 100 * cond.lo
          [] cond.kind = "fields" -> Contains(FieldsJson(note.fields), cond.text)

\* ORDER BY c.due ASC, c.id ASC
RECURSIVE ByDueThenId(_)
ByDueThenId(S) ==
    IF S = {} THEN <<>>
    ELSE LET first == CHOOSE c \in S : \A o \in S :
                          \/ cards[c].due < cards[o].due
                          \/ cards[c].due = cards[o].due /\ c <= o
         IN  <<first>> \o ByDueThenId(S \ {first})

\* LIMIT ?
Limit(s, limit) == IF limit < 0 \/ limit >= Len(s) THEN s ELSE SubSeq(s, 1, limit)

\* The ids of the rows the SELECT of the handler returns.
SearchRows(conditions, limit) ==
    Limit(ByDueThenId({c \in DOMAIN cards :
                          \A i \in 1..Len(conditions) : Satisfies(c, conditions[i])}),
          limit)

SearchCards(query, limit) ==
    /\ Admitted("anki_search_cards")
    /\ nextResult' = [ called |-> FALSE, query |-> query, limit |-> limit,
                       cards |-> SearchRows(parseSearchQuery(query), limit) ]
    /\ UNCHANGED aux
    /\ UNCHANGED <<cards, decks, reviews, calls, ncalls, opsLeft, today, sIn, sOut, readonly, refused>>

MaxSearchOps == 1

\* The queries the search is run with.
Queries ==
    { <<>>,
      <<"deck", CL, DQ, "Spanish", CL, CL, "Basics", DQ>>,
      <<"deck", CL, "Basics">>,
      <<"deck", CL, "Advanced", SP, "is", CL, "new">>,
      <<"is", CL, "suspended">>,
      <<"is", CL, "due">>,
      <<"is", CL, "learning">>,
      <<"added", CL, "1", SP, "is", CL, "new">>,
      <<"tag", CL, "irregular">>,
      <<"tag", CL, "verb">>,
      <<"note", CL, "q">>,
      <<"note", CL, DQ, "to", SP, "be", DQ>>,
      <<DQ, "to", SP, "be", DQ>>,
      <<"be">>,
      <<"front">>,
      <<"prop", CL, "ivl>", "0">>,
      <<"prop", CL, "ease<", "1">>,
      <<"rated", CL, "1">>,
      <<"rated", CL, "0", "..", "1">> }

Limits == {1, 100}

SearchDeckName(d) == <<"Spanish::Basics", "Spanish::Advanced", "French", "German">>[d]

\* Every card is the card of a basic note of its own; the notes alternate
\* between the decks.
InitSearch ==
    /\ cards = [c \in CardIds |-> NewCard(c, "forward")]
    /\ decks = [d \in DeckIds |-> [FixtureDecks[d] EXCEPT !.name = SearchDeckName(d),
                                                          !.parent_id = NULL]]
    /\ notes = [n \in CardIds |->
                  [ deck_id |-> ((n - 1) % NumDecks) + 1, model |-> "basic",
                    fields |-> [front |-> IF n = 1 THEN "to be" ELSE "q", back |-> "a"],
                    tags |-> IF n = 1 THEN "verb" ELSE "verb irregular" ]]
    /\ deletedReviews = {}
    /\ seq = [decks |-> NumDecks, notes |-> NumCards, cards |-> NumCards]
    /\ del = NoDelete
    /\ imp = NoImport
    /\ exported = NoExport
    /\ reviews = <<>>
    /\ calls = [k \in CallIds |-> IdleCall]
    /\ ncalls = 0
    /\ opsLeft = MaxSearchOps
    /\ today = 1
    /\ nextResult = NoResult
    /\ sIn = NoSched
    /\ sOut = NoSched
    /\ readonly = FALSE
    /\ refused = {}

NextSearch ==
    \/ \E q \in Queries, limit \in Limits : SearchCards(q, limit)
    \/ \E k \in CallIds, c \in CardIds, r \in Ratings : AnswerRead(k, c, r)
    \/ \E k \in CallIds : AnswerUpdate(k)
    \/ \E k \in CallIds : AnswerInsert(k)
    \/ \E ids \in Subsets : SuspendCards(ids)

SpecSearch == InitSearch /\ [][NextSearch]_vars

\* ------------------------------------------------------- the card generator
MaxGenOps == 3

\* The notes anki.add_note is called with: the models of its inputSchema and
\* texts with no cloze marker, one marker, two markers of one number and two
\* markers in descending order.
GenModels == {"basic", "basic_reverse", "cloze", "custom"}

GenFronts == {"q", "{{c1::x}}", "{{c1::x}} {{c1::y}}", "{{c2::x}} {{c1::y}}"}

RecordCustom == [ deck |-> "", model |-> "custom", fields |-> [front |-> "q", back |-> "a"] ]

RecordClozeTwo == [ deck |-> "", model |-> "cloze", fields |-> [front |-> "{{c2::x}} {{c1::y}}"] ]

GenPayloads == { <<RecordBasic>>, <<RecordReverse>>, <<RecordCustom>>, <<RecordCloze>>,
                 <<RecordClozeTwo>> }

InitGen ==
    /\ cards = FixtureCards
    /\ decks = FixtureDecks
    /\ AuxInit
    /\ reviews = <<>>
    /\ calls = [k \in CallIds |-> IdleCall]
    /\ ncalls = 0
    /\ opsLeft = MaxGenOps
    /\ today = 1
    /\ nextResult = NoResult
    /\ sIn = NoSched
    /\ sOut = NoSched
    /\ readonly = FALSE
    /\ refused = {}

NextGen ==
    \/ \E model \in GenModels, front \in GenFronts :
            AddNote(1, model, [front |-> front, back |-> "a"])
    \/ \E n \in IdsAndOneMore(notes, seq.notes) : GenerateCards(n)
    \/ \E format \in {"csv", "markdown"}, records \in GenPayloads, dryRun \in BOOLEAN :
            ImportStart(format, records, "A", FALSE, dryRun)
    \/ ImportRecord

SpecGen == InitGen /\ [][NextGen]_vars

\* ------------------------------------------------- anki_export and back again
NL == "\n"

\* The texts of more than one lexeme, and the text a lexeme sequence spells.
CompoundTexts ==
    { "Spanish::Basics", "Spanish::Advanced", "to be", "verb irregular",
      "line1\nline2", "line1\n\nline2" }

TextOf(lexemes) ==
    IF lexemes = <<>> THEN ""
    ELSE IF \E s \in CompoundTexts : Lexemes(s) = lexemes
    THEN CHOOSE s \in CompoundTexts : Lexemes(s) = lexemes
    ELSE IF Len(lexemes) = 1 THEN lexemes[1]
    ELSE "(another text)"

\* fields[key] || ''
FieldOr(fields, key) == IF key \in DOMAIN fields THEN fields[key] ELSE ""

\* `${label} ${text}\n`
MarkdownLine(label, text) == <<label, SP>> \o Lexemes(text) \o <<NL>>

\* key.charAt(0).toUpperCase() + key.slice(1) + ':'
Capitalized(key) ==
    CASE key = "front" -> "Front:" [] key = "back" -> "Back:" [] OTHER -> "Extra:"

\* The lines the switch on note.model writes.
MarkdownFields(note) ==
    LET fields == note.fields
        line(label, key) == MarkdownLine(label, FieldOr(fields, key))
        optional(label, key) ==
            IF FieldOr(fields, key) # "" THEN line(label, key) ELSE <<>>
    IN  CASE note.model \in {"basic", "basic_reverse"} ->
               line("Q:", "front") \o line("A:", "back") \o optional("Extra:", "extra")
          [] note.model = "cloze" -> line("Cloze:", "front") \o optional("Extra:", "extra")
          [] OTHER -> optional(Capitalized("front"), "front")
                          \o optional(Capitalized("back"), "back")
                          \o optional(Capitalized("extra"), "extra")

\* One iteration of the loop over the notes.
MarkdownNote(note, deckName) ==
    <<"### Deck:", SP>> \o Lexemes(deckName) \o <<NL>>
        \o (IF note.tags # "" THEN <<"Tags:", SP>> \o Lexemes(note.tags) \o <<NL>> ELSE <<>>)
        \o <<"Model:", SP, note.model, NL>>
        \o MarkdownFields(note)
        \o <<NL, "---", NL, NL>>

\* getNotes: SELECT * FROM notes WHERE deck_id = ? ORDER BY id
RECURSIVE ById(_)
ById(S) ==
    IF S = {} THEN <<>>
    ELSE LET first == CHOOSE n \in S : \A o \in S : n <= o
         IN  <<first>> \o ById(S \ {first})

getNotes(deckId) == ById({n \in DOMAIN notes : notes[n].deck_id = deckId})

RECURSIVE MarkdownNotes(_, _)
MarkdownNotes(ids, deckName) ==
    IF ids = <<>> THEN <<>>
    ELSE MarkdownNote(notes[Head(ids)], deckName) \o MarkdownNotes(Tail(ids), deckName)

\* MarkdownExporter.export without includeStats
MarkdownExport(deckId) ==
    LET name == decks[deckId].name
        ids  == getNotes(deckId)
    IN  <<"#", SP>> \o Lexemes(name) \o <<NL, NL>>
            \o <<"Exported on:", SP, "2026-11-01T00:00:00.000Z", NL>>
            \o <<"Total notes:", SP, ToString(Len(ids)), NL, NL>>
            \o <<"## Cards", NL, NL>>
            \o MarkdownNotes(ids, name)

\* JSONExporter.export without media and stats, before JSON.stringify
JsonExport(deckId) ==
    LET ids == getNotes(deckId)
    IN  [ version |-> "1.0",
          deck |-> [ id |-> deckId, name |-> decks[deckId].name,
                     config |-> decks[deckId].config ],
          notes |-> [i \in 1..Len(ids) |->
                       [ id |-> ids[i], model |-> notes[ids[i]].model,
                         fields |-> notes[ids[i]].fields, tags |-> notes[ids[i]].tags,
                         cards |-> ById({c \in DOMAIN cards : cards[c].note_id = ids[i]}) ]] ]

\* What the notes of a deck are, apart from their ids.
NoteContents(deckId) ==
    LET ids == getNotes(deckId)
    IN  [i \in 1..Len(ids) |->
            [ deck |-> decks[deckId].name, model |-> notes[ids[i]].model,
              fields |-> notes[ids[i]].fields, tags |-> notes[ids[i]].tags ]]

\* anki_export: the SELECTs of the handler and of the exporter, then
\* fs.promises.writeFile(filePath, content); a store error or a deck that does
\* not exist makes it throw.
Export(deckId, format) ==
    /\ Admitted("anki_export")
    /\ \E ok \in BOOLEAN :
         IF ok /\ deckId \in DOMAIN decks /\ format \in {"json", "markdown"}
         THEN exported' = [ pc |-> "written", format |-> format,
                            content |-> IF format = "markdown" THEN MarkdownExport(deckId)
                                        ELSE JsonExport(deckId),
                            notes |-> NoteContents(deckId) ]
         ELSE exported' = [ pc |-> "failed" ]
    /\ UNCHANGED <<cards, decks, notes, reviews, deletedReviews, seq, del, imp, calls, ncalls,
                   opsLeft, today, nextResult, sIn, sOut, readonly, refused>>

\* s.split(sep)
RECURSIVE SplitOn(_, _)
SplitOn(s, sep) ==
    LET i == IndexOf(s, sep)
    IN  IF i = 0 THEN <<s>>
        ELSE <<SubSeq(s, 1, i - 1)>> \o SplitOn(SubSeq(s, i + 1, Len(s)), sep)

\* A line that /^---\s*$/m matches.
IsRule(line) ==
    /\ line # <<>>
    /\ Head(line) = "---"
    /\ \A i \in 2..Len(line) : line[i] = SP

\* content.split(/^---\s*$/m), each section as its lines
RECURSIVE SectionsFrom(_, _)
SectionsFrom(lines, current) ==
    IF lines = <<>> THEN <<current>>
    ELSE IF IsRule(Head(lines)) THEN <<current>> \o SectionsFrom(Tail(lines), <<>>)
    ELSE SectionsFrom(Tail(lines), Append(current, Head(lines)))

\* list.join(sep)
RECURSIVE Join(_, _)
Join(list, sep) ==
    IF list = <<>> THEN <<>>
    ELSE IF Len(list) = 1 THEN list[1]
    ELSE list[1] \o <<sep>> \o Join(Tail(list), sep)

\* line.replace(label, '').trim() for a line that starts with the label
AfterLabel(line) == Trim(Tail(line))

\* currentRecord.fields[currentField] = currentFieldContent.join('\n')
WithField(p) ==
    IF p.currentField # ""
    THEN [p EXCEPT !.record.fields =
              WithRow(p.record.fields, p.currentField, TextOf(Join(p.currentFieldContent, NL)))]
    ELSE p

\* The body of the loop over the lines of a section.
ParseLine(p, line) ==
    LET start(field) ==
            [WithField(p) EXCEPT !.currentField = field,
                                 !.currentFieldContent = <<AfterLabel(line)>>]
    IN  CASE Head(line) = "### Deck:" -> [p EXCEPT !.record.deck = TextOf(AfterLabel(line))]
          [] Head(line) = "Tags:" ->
               [p EXCEPT !.record.tags =
                    TextOf(Join(SelectSeq(SplitOn(AfterLabel(line), SP), LAMBDA t : t # <<>>),
                                SP))]
          [] Head(line) = "Model:" -> [p EXCEPT !.record.model = TextOf(AfterLabel(line))]
          [] Head(line) = "Q:" -> start("front")
          [] Head(line) = "A:" -> start("back")
          [] Head(line) = "Cloze:" -> [start("front") EXCEPT !.record.model = "cloze"]
          [] Head(line) = "Extra:" -> start("extra")
          [] OTHER -> IF p.currentField # ""
                      THEN [p EXCEPT !.currentFieldContent = Append(@, line)]
                      ELSE p

RECURSIVE ParseLines(_, _)
ParseLines(p, lines) ==
    IF lines = <<>> THEN WithField(p).record
    ELSE ParseLines(ParseLine(p, Head(lines)), Tail(lines))

\* The record of one section: its lines trimmed, the empty ones dropped.
ParseSection(section) ==
    LET trimmed == [i \in 1..Len(section) |-> Trim(section[i])]
        lines   == SelectSeq(trimmed, LAMBDA line : line # <<>>)
    IN  ParseLines([ record |-> [ deck |-> "", model |-> "basic",
                                  fields |-> [k \in {} |-> ""], tags |-> "" ],
                     currentField |-> "", currentFieldContent |-> <<>> ],
                   lines)

\* MarkdownImporter.parseMarkdown: the records with a front
parseMarkdown(content) ==
    LET sections == SectionsFrom(SplitOn(content, NL), <<>>)
        records  == [i \in 1..Len(sections) |-> ParseSection(sections[i])]
    IN  SelectSeq(records, LAMBDA r : FieldOr(r.fields, "front") # "")

\* anki_import of the document anki_export wrote
ImportExported(deckDefault, dedupe) ==
    /\ exported.pc = "written"
    /\ exported.format = "markdown"
    /\ ImportStart("markdown", parseMarkdown(exported.content), deckDefault, dedupe, FALSE)

\* The server is started on a new database file: the schema creates the
\* tables, all empty.  The exported file stays where it was written.
OpenEmptyStore ==
    /\ imp.pc # "running"
    /\ DOMAIN decks # {}
    /\ cards' = <<>>
    /\ decks' = <<>>
    /\ notes' = <<>>
    /\ reviews' = <<>>
    /\ deletedReviews' = {}
    /\ seq' = [decks |-> 0, notes |-> 0, cards |-> 0]
    /\ del' = NoDelete
    /\ imp' = NoImport
    /\ nextResult' = NoResult
    /\ UNCHANGED <<exported, calls, ncalls, opsLeft, today, sIn, sOut, readonly, refused>>

MaxRoundOps == 1

\* The notes of the exported deck: basic with a tag, basic_reverse with two
\* tags and a front of two words, cloze with and without a back, basic with a
\* back of two lines, with and without an empty line between them.
RoundNotes ==
    { [ model |-> "basic", fields |-> [front |-> "q", back |-> "a"], tags |-> "verb" ],
      [ model |-> "basic_reverse", fields |-> [front |-> "to be", back |-> "a"],
        tags |-> "verb irregular" ],
      [ model |-> "cloze", fields |-> [front |-> "{{c1::x}}"], tags |-> "" ],
      [ model |-> "cloze", fields |-> [front |-> "{{c1::x}}", back |-> "a"], tags |-> "" ],
      [ model |-> "basic", fields |-> [front |-> "q", back |-> "line1\nline2"], tags |-> "" ],
      [ model |-> "basic", fields |-> [front |-> "q", back |-> "line1\n\nline2"], tags |-> "" ] }

RoundNoteLists == {<<a>> : a \in RoundNotes} \cup {<<a, b>> : a, b \in RoundNotes}

InitRound ==
    /\ cards = <<>>
    /\ decks = FixtureDecks
    /\ \E list \in RoundNoteLists :
           notes = [n \in 1..Len(list) |->
                      [ deck_id |-> 1, model |-> list[n].model, fields |-> list[n].fields,
                        tags |-> list[n].tags ]]
    /\ deletedReviews = {}
    /\ seq = [decks |-> NumDecks, notes |-> Len(notes), cards |-> 0]
    /\ del = NoDelete
    /\ imp = NoImport
    /\ exported = NoExport
    /\ reviews = <<>>
    /\ calls = [k \in CallIds |-> IdleCall]
    /\ ncalls = 0
    /\ opsLeft = MaxRoundOps
    /\ today = 1
    /\ nextResult = NoResult
    /\ sIn = NoSched
    /\ sOut = NoSched
    /\ readonly = FALSE
    /\ refused = {}

NextRound ==
    \/ \E d \in {1, NumDecks + 1}, format \in {"json", "markdown"} : Export(d, format)
    \/ OpenEmptyStore
    \/ \E deckDefault \in {"Inbox", "A"}, dedupe \in BOOLEAN : ImportExported(deckDefault, dedupe)
    \/ ImportRecord

SpecRound == InitRound /\ [][NextRound]_vars

\* ------------------------------------------------------- the tools that read
\* anki_card_info with an UPDATE cards SET due = today of the card it reads
CardInfo_touchesCard(cardId) ==
    /\ Admitted("anki_card_info")
    /\ nextResult' = [ called |-> FALSE, cardId |-> cardId, threw |-> cardId \notin DOMAIN cards ]
    /\ cards' = [c \in DOMAIN cards |->
                    IF c = cardId THEN [cards[c] EXCEPT !.due = today] ELSE cards[c]]
    /\ UNCHANGED aux
    /\ UNCHANGED <<decks, reviews, calls, ncalls, opsLeft, today, sIn, sOut, readonly, refused>>

\* ORDER BY ts DESC LIMIT 10 over the review rows of the card
RECURSIVE ByTsDesc(_)
ByTsDesc(S) ==
    IF S = {} THEN <<>>
    ELSE LET first == CHOOSE i \in S : \A o \in S : reviews[i].ts >= reviews[o].ts
         IN  <<first>> \o ByTsDesc(S \ {first})

\* anki_card_info: the joined row of the card and its latest reviews; no row,
\* or a store error, makes it throw.
CardInfo(cardId) ==
    /\ Admitted("anki_card_info")
    /\ \E ok \in BOOLEAN :
         nextResult' =
            IF ok /\ cardId \in DOMAIN cards
            THEN [ called |-> FALSE, cardId |-> cardId, threw |-> FALSE,
                   card |-> cards[cardId],
                   deckName |-> decks[DeckOfCard(cardId)].name,
                   fields |-> notes[cards[cardId].note_id].fields,
                   tags |-> notes[cards[cardId].note_id].tags,
                   model |-> notes[cards[cardId].note_id].model,
                   recentReviews |->
                       Limit(ByTsDesc({i \in LiveReviews : reviews[i].card_id = cardId}), 10) ]
            ELSE [ called |-> FALSE, cardId |-> cardId, threw |-> TRUE ]
    /\ UNCHANGED aux
    /\ UNCHANGED <<cards, decks, reviews, calls, ncalls, opsLeft, today, sIn, sOut, readonly, refused>>

\* anki_config_get: the defaults overlaid with the stored config
ConfigGet(deckId) ==
    /\ Admitted("anki_config_get")
    /\ \E ok \in BOOLEAN :
         nextResult' =
            IF ok /\ deckId \in DOMAIN decks
            THEN [ called |-> FALSE, deckId |-> deckId, threw |-> FALSE,
                   deckName |-> decks[deckId].name,
                   config |-> Spread(getDefaultConfig, decks[deckId].config) ]
            ELSE [ called |-> FALSE, deckId |-> deckId, threw |-> TRUE ]
    /\ UNCHANGED aux
    /\ UNCHANGED <<cards, decks, reviews, calls, ncalls, opsLeft, today, sIn, sOut, readonly, refused>>

\* ORDER BY name over the names the decks of the model have
NameRank(name) ==
    CHOOSE i \in 1..6 : <<"A", "B", "C", "D", "Inbox", "X">>[i] = name

RECURSIVE ByName(_)
ByName(S) ==
    IF S = {} THEN <<>>
    ELSE LET first == CHOOSE d \in S :
                          \A o \in S : NameRank(decks[d].name) <= NameRank(decks[o].name)
         IN  <<first>> \o ByName(S \ {first})

\* anki.list_decks: the flat list, or the roots with their children
ListDecks(flat) ==
    /\ Admitted("anki.list_decks")
    /\ \E ok \in BOOLEAN :
         nextResult' =
            IF ~ok THEN [ called |-> FALSE, flat |-> flat, threw |-> TRUE ]
            ELSE IF flat
            THEN [ called |-> FALSE, flat |-> flat, threw |-> FALSE,
                   decks |-> ByName(DOMAIN decks) ]
            ELSE [ called |-> FALSE, flat |-> flat, threw |-> FALSE,
                   decks |-> ByName({d \in DOMAIN decks : decks[d].parent_id = NULL}),
                   children |-> [d \in DOMAIN decks |->
                                   ByName({c \in DOMAIN decks : decks[c].parent_id = d})] ]
    /\ UNCHANGED aux
    /\ UNCHANGED <<cards, decks, reviews, calls, ncalls, opsLeft, today, sIn, sOut, readonly, refused>>

\* anki_stats: the counts of getBasicCounts over the reviews and the card
\* states, and getDueBreakdown (its second subquery binds today + 7 before
\* today, so its BETWEEN selects no row).
Stats(deckId, range, includeSubdecks) ==
    /\ Admitted("anki_stats")
    /\ LET startDate == CASE range = "today" -> today
                          [] range = "7d" -> today - 7
                          [] range = "30d" -> today - 30
                          [] OTHER -> 0
           startTimestamp == startDate * SecondsPerDay
           scope == IF deckId = NULL THEN DOMAIN decks
                    ELSE IF includeSubdecks THEN getDeckHierarchy(deckId)
                    ELSE {deckId}
           rows == {c \in DOMAIN cards : DeckOfCard(c) \in scope}
           done == {i \in LiveReviews : reviews[i].card_id \in rows
                                        /\ reviews[i].ts >= startTimestamp}
           count(states) == Cardinality({c \in rows : cards[c].state \in states})
       IN  \E ok \in BOOLEAN :
             nextResult' =
                IF ok
                THEN [ called |-> FALSE, range |-> range, deckId |-> deckId, threw |-> FALSE,
                       reviewsDone |-> Cardinality(done),
                       lapses |-> Cardinality({i \in done : reviews[i].rating = 1}),
                       cardStates |-> [ new |-> count({"new"}), learning |-> count({"learning"}),
                                        review |-> count({"review"}),
                                        suspended |-> count({"suspended"}),
                                        total |-> Cardinality(rows) ],
                       due |-> [ today |-> Cardinality({c \in rows :
                                              cards[c].due <= today
                                              /\ cards[c].state \in SchedStates}),
                                 future7d |-> Cardinality({c \in rows :
                                                 today + 7 <= cards[c].due
                                                 /\ cards[c].due <= today
                                                 /\ cards[c].state \in SchedStates}) ] ]
                ELSE [ called |-> FALSE, range |-> range, deckId |-> deckId, threw |-> TRUE ]
    /\ UNCHANGED aux
    /\ UNCHANGED <<cards, decks, reviews, calls, ncalls, opsLeft, today, sIn, sOut, readonly, refused>>

MaxReadOps == 1

ReadQueries == { <<>>, <<"is", CL, "new">>, <<"deck", CL, "A">> }

InitRead ==
    /\ cards = FixtureCards
    /\ decks = FixtureDecks
    /\ AuxInit
    /\ reviews = <<>>
    /\ calls = [k \in CallIds |-> IdleCall]
    /\ ncalls = 0
    /\ opsLeft = MaxReadOps
    /\ today = 1
    /\ nextResult = NoResult
    /\ sIn = NoSched
    /\ sOut = NoSched
    /\ readonly \in BOOLEAN
    /\ refused = {}

\* A call of one of the tools registered with mutating: false.
ReadTool ==
    \/ \E d \in DeckIds \cup {NULL}, sub \in BOOLEAN : GetNextCard(d, sub)
    \/ \E c \in IdsAndOneMore(cards, seq.cards) : CardInfo(c)
    \/ \E q \in ReadQueries : SearchCards(q, 100)
    \/ \E d \in DeckIds \cup {NULL}, range \in {"today", "all"}, sub \in BOOLEAN :
            Stats(d, range, sub)
    \/ \E d \in IdsAndOneMore(decks, seq.decks) : ConfigGet(d)
    \/ \E flat \in BOOLEAN : ListDecks(flat)
    \/ \E d \in IdsAndOneMore(decks, seq.decks), format \in {"json", "markdown"} :
            Export(d, format)

NextRead ==
    \/ ReadTool
    \/ \E k \in CallIds, c \in CardIds, r \in {1, 3} : AnswerRead(k, c, r)
    \/ \E k \in CallIds : AnswerUpdate(k)
    \/ \E k \in CallIds : AnswerInsert(k)
    \/ \E ids \in Subsets : SuspendCards(ids)

SpecRead == InitRead /\ [][NextRead]_vars

\* =================================================================== claims
InFlight(k) == calls[k].pc \in {"updating", "inserting"}

Terminated(k) == calls[k].pc \in {"done", "failed"}

\* The review rows written by invocation k (its timestamp is k).
RowsOfCall(k) == {i \in 1..Len(reviews) : reviews[i].ts = k}

Siblings(c) == {o \in CardIds \ {c} : cards[o].note_id = cards[c].note_id}

\* C1: when an anki_answer_card call has ended, by returning or by throwing,
\* the store holds its card update and exactly one review row of it, or
\* neither of the two.
C1_AnswerAtomic ==
    \A k \in CallIds :
        Terminated(k) =>
            \/ calls[k].cardWritten /\ Cardinality(RowsOfCall(k)) = 1
            \/ ~calls[k].cardWritten /\ RowsOfCall(k) = {}

\* C2: the step that completes anki_answer_card on a card whose deck has
\* burySiblings = true leaves every other card of the same note buried or
\* suspended.
C2_SiblingsBuried ==
    [][\A k \in CallIds :
          (calls[k].pc = "inserting" /\ calls'[k].pc = "done" /\ calls[k].config.burySiblings)
          => \A o \in Siblings(calls[k].cardId) :
                 cards'[o].state \in {"buried", "suspended"}]_vars

\* C3: the card update of an answer with rating 1 on a review card whose
\* lapses reach leechThreshold under leechAction = suspend persists the state
\* suspended.
C3_LeechSuspended ==
    [][\A k \in CallIds :
          (/\ calls[k].pc = "updating" /\ calls'[k].pc = "inserting"
           /\ calls[k].beforeState.state = "review" /\ calls[k].rating = 1
           /\ calls[k].beforeState.lapses + 1 >= calls[k].config.leechThreshold
           /\ calls[k].config.leechAction = "suspend")
          => cards'[calls[k].cardId].state = "suspended"]_vars

\* C4: every card in state review has ivl >= 1 and ease >= the minEase of
\* its deck's current configuration.
C4_ReviewInvariant ==
    \A c \in CardIds :
        cards[c].state = "review" =>
            cards[c].ivl >= 1 /\ cards[c].ease >= decks[DeckOfCard(c)].config.minEase

\* C5: no two anki_answer_card handlers are in flight on the same card.
C5_OneInFlightPerCard ==
    \A j, k \in CallIds :
        (j # k /\ InFlight(j) /\ InFlight(k)) => calls[j].cardId # calls[k].cardId

\* The claimed queue order learning < relearning < new < review.
ClaimedRank(state) ==
    CASE state = "learning" -> 1
      [] state = "relearning" -> 2
      [] state = "new" -> 3
      [] state = "review" -> 4
      [] OTHER -> 5

\* A card the claims call a due candidate of the scope of a request.
DueInScope(c, deckId, includeSubdecks) ==
    /\ cards[c].state \in {"learning", "relearning", "new", "review"}
    /\ cards[c].due <= today
    /\ InScope(c, deckId, includeSubdecks)

\* C6: the card anki_get_next_card returns has minimal state priority among
\* the due candidates in scope under learning < relearning < new < review.
C6_QueuePriority ==
    (nextResult.called /\ ~nextResult.threw /\ nextResult.card # NULL) =>
        \A o \in CardIds :
            DueInScope(o, nextResult.deckId, nextResult.includeSubdecks) =>
                ClaimedRank(cards[nextResult.card].state) <= ClaimedRank(cards[o].state)

\* C6 witness: a learning card is returned while a due new card is in scope.
C6_Witness ==
    /\ nextResult.called /\ nextResult.card # NULL
    /\ cards[nextResult.card].state = "learning"
    /\ \E o \in CardIds : /\ DueInScope(o, nextResult.deckId, nextResult.includeSubdecks)
                          /\ cards[o].state = "new"

\* C7: anki_get_next_card returns only a due candidate in scope (never a
\* suspended or buried card), and returns no card only when there is none.
C7_SelectionPredicate ==
    (nextResult.called /\ ~nextResult.threw) =>
        IF nextResult.card # NULL
        THEN DueInScope(nextResult.card, nextResult.deckId, nextResult.includeSubdecks)
        ELSE \A o \in CardIds :
                 ~DueInScope(o, nextResult.deckId, nextResult.includeSubdecks)

\* C7 witness: a card is returned although a buried or suspended card of the
\* scope, due today, has a smaller id.
C7_Witness ==
    /\ nextResult.called /\ nextResult.card # NULL
    /\ \E o \in CardIds : /\ o < nextResult.card
                          /\ cards[o].state \in {"buried", "suspended"}
                          /\ cards[o].due <= today
                          /\ InScope(o, nextResult.deckId, nextResult.includeSubdecks)

\* C7, the other case: no card is returned while every card is buried or
\* suspended.
C7_NullReached ==
    /\ nextResult.called /\ nextResult.card = NULL /\ nextResult.deckId = NULL
    /\ \A o \in CardIds : cards[o].state \in {"buried", "suspended"}

\* What C8 expects of the card row after answering a new card.
C8_Expected(row, f) ==
    /\ row.reps = f.beforeState.reps + 1
    /\ IF f.rating = 4
       THEN /\ row.state = "review"
            /\ row.ivl = CeilDiv(f.config.graduatingIntervalDays * f.config.easyBonus, 100)
            /\ row.due = f.day + row.ivl
            /\ row.ease = 265
       ELSE /\ row.state = "learning"
            /\ row.ivl = 0
            /\ row.due = f.day

\* C8: answering a new card increments reps by one; ratings 1..3 give
\* learning, ivl 0, due today; rating 4 gives review, ivl
\* ceil(graduatingIntervalDays * easyBonus), due today + ivl, ease 2.65; and
\* the call appends exactly one review row.
C8_AnswerNew ==
    [][\A k \in CallIds :
          /\ (/\ calls[k].pc = "updating" /\ calls'[k].pc = "inserting"
              /\ calls[k].beforeState.state = "new")
             => C8_Expected(cards'[calls[k].cardId], calls[k])
          /\ (/\ calls[k].pc = "inserting" /\ calls'[k].pc = "done"
              /\ calls[k].beforeState.state = "new")
             => /\ Len(reviews') = Len(reviews) + 1
                /\ SubSeq(reviews', 1, Len(reviews)) = reviews
                /\ reviews'[Len(reviews')].card_id = calls[k].cardId
                /\ {i \in 1..Len(reviews') : reviews'[i].ts = k} = {Len(reviews')}]_vars

\* C8 witness: a new card was answered with rating 4 under the default
\* configuration and is in review with ivl 2, ease 2.65, with one review row.
C8_Witness ==
    \E k \in CallIds :
        /\ calls[k].pc = "done" /\ Cardinality(RowsOfCall(k)) = 1
        /\ LET r == reviews[calls[k].logId]
           IN  /\ r.state_before = "new" /\ r.rating = 4 /\ r.state_after = "review"
               /\ cards[r.card_id].state = "review" /\ cards[r.card_id].ivl = 2
               /\ cards[r.card_id].ease = 265 /\ cards[r.card_id].reps = 1

\* C9: answering a learning or relearning card: rating 1 keeps the state
\* with ivl 0 and due today; ratings 2 and 3 give review with ivl
\* graduatingIntervalDays and ease unchanged; rating 4 gives review with ivl
\* ceil(graduatingIntervalDays * easyBonus) and ease increased by 0.15; due is
\* today + ivl.
C9_AnswerLearning ==
    [][\A k \in CallIds :
          (/\ calls[k].pc = "updating" /\ calls'[k].pc = "inserting"
           /\ calls[k].beforeState.state \in {"learning", "relearning"})
          => LET row == cards'[calls[k].cardId]
                 f == calls[k]
             IN  CASE f.rating = 1 ->
                        /\ row.state = f.beforeState.state /\ row.ivl = 0 /\ row.due = f.day
                   [] f.rating \in {2, 3} ->
                        /\ row.state = "review" /\ row.ivl = f.config.graduatingIntervalDays
                        /\ row.due = f.day + row.ivl /\ row.ease = f.beforeState.ease
                   [] OTHER ->
                        /\ row.state = "review"
                        /\ row.ivl = CeilDiv(f.config.graduatingIntervalDays
                                             * f.config.easyBonus, 100)
                        /\ row.due = f.day + row.ivl
                        /\ row.ease = f.beforeState.ease + 15]_vars

\* What C10 expects of a scheduling result for a lapse below the leech
\* threshold.
C10_Expected(a) ==
    /\ a.state = "relearning"
    /\ a.reps = sIn.card.reps + 1
    /\ a.lapses = sIn.card.lapses + 1
    /\ a.ease = Max(sIn.config.minEase, sIn.card.ease - 20)
    /\ a.ivl = 0
    /\ a.due = today

\* C10: rating 1 on a review card whose lapses stay below the leech threshold
\* gives reps + 1, lapses + 1, state relearning, ease max(minEase, ease - 0.2),
\* ivl 0 and due today, in applyScheduling and in Scheduler.scheduleCard.
C10_LapseBothPaths ==
    (/\ sIn # NoSched /\ sIn.card.state = "review" /\ sIn.rating = 1
     /\ sIn.card.lapses + 1 < sIn.config.leechThreshold)
    => /\ sOut.tool # NoSched => C10_Expected(sOut.tool)
       /\ sOut.sched # NoSched => C10_Expected(sOut.sched.afterState)

\* What C11 expects of a scheduling result for ratings 2..4 on a review card
\* without fuzz.
C11_Expected(a) ==
    LET c == sIn.card
        cfg == sIn.config
        e == CASE sIn.rating = 2 -> Max(cfg.minEase, c.ease - 15)
               [] sIn.rating = 4 -> c.ease + 15
               [] OTHER -> c.ease
        i == CASE sIn.rating = 2 -> Max(1, CeilDiv(c.ivl * cfg.hardInterval, 100))
               [] sIn.rating = 4 -> Max(1, CeilDiv(c.ivl * e * cfg.easyBonus, 10000))
               [] OTHER -> Max(1, CeilDiv(c.ivl * c.ease, 100))
    IN  /\ a.state = "review"
        /\ a.ease = e
        /\ a.ivl = i
        /\ a.due = today + i

\* C11: with fuzzPercent = 0, ratings 2..4 on a review card keep it in
\* review; Hard gives ease max(minEase, ease - 0.15) and ivl
\* max(1, ceil(ivl * hardInterval)); Good gives ivl max(1, ceil(ivl * ease))
\* and the same ease; Easy gives ease + 0.15 and ivl
\* max(1, ceil(ivl * (ease + 0.15) * easyBonus)); due is today + ivl; in
\* applyScheduling and in Scheduler.scheduleCard.
C11_ReviewSuccess ==
    (/\ sIn # NoSched /\ sIn.card.state = "review" /\ sIn.rating \in {2, 3, 4}
     /\ sIn.config.fuzzPercent = 0)
    => /\ sOut.tool # NoSched => C11_Expected(sOut.tool)
       /\ sOut.sched # NoSched => C11_Expected(sOut.sched.afterState)

\* C12: the card update of an answer with rating 3 on a review card with
\* ease > 1, computed with a fuzz term of 0, persists an ivl strictly greater
\* than the ivl the call read.
C12_GoodGrowsInterval ==
    [][\A k \in CallIds :
          (/\ calls[k].pc = "updating" /\ calls'[k].pc = "inserting"
           /\ calls[k].beforeState.state = "review" /\ calls[k].rating = 3
           /\ calls[k].beforeState.ease > 100
           /\ calls[k].afterState = applyScheduling(calls[k].beforeState, 3, calls[k].config,
                                                    calls[k].day, 0))
          => cards'[calls[k].cardId].ivl > calls[k].beforeState.ivl]_vars

\* C13: every review row anki_answer_card writes carries as (state_before,
\* ivl_before, ease_before) the card row as that call's SELECT returned it
\* and as (state_after, ivl_after, ease_after) the values that call's UPDATE
\* persisted.
C13_LogSnapshots ==
    [][\A k \in CallIds :
          /\ (calls[k].pc = "idle" /\ calls'[k].pc = "updating")
             => calls'[k].beforeState = BeforeState(cards[calls'[k].cardId])
          /\ (calls[k].pc = "updating" /\ calls'[k].pc = "inserting")
             => LET row == cards'[calls[k].cardId]
                IN  /\ row.state = calls[k].afterState.state
                    /\ row.ivl = calls[k].afterState.ivl
                    /\ row.ease = calls[k].afterState.ease
                    /\ calls'[k].beforeState = calls[k].beforeState
                    /\ calls'[k].afterState = calls[k].afterState
          /\ (calls[k].pc = "inserting" /\ calls'[k].pc = "done")
             => LET r == reviews'[Len(reviews')]
                IN  /\ r.state_before = calls[k].beforeState.state
                    /\ r.ivl_before = calls[k].beforeState.ivl
                    /\ r.ease_before = calls[k].beforeState.ease
                    /\ r.state_after = calls[k].afterState.state
                    /\ r.ivl_after = calls[k].afterState.ivl
                    /\ r.ease_after = calls[k].afterState.ease]_vars

\* C13 witness: two calls on one card both read it as new and both logged
\* their own snapshots: the later row's before-image is the row as read, not
\* the row the earlier call had persisted by then.
C13_Witness ==
    \E i, j \in 1..Len(reviews) :
        /\ i < j /\ reviews[i].card_id = reviews[j].card_id
        /\ reviews[i].state_before = "new" /\ reviews[j].state_before = "new"
        /\ reviews[i].state_after = "review" /\ reviews[j].state_after = "learning"
        /\ cards[reviews[j].card_id].state \in {"review", "learning"}

\* C14: of two anki_answer_card calls on distinct cards, the one invoked
\* first has the smaller review id.
C14_LogOrderIsCallOrder ==
    \A i, j \in 1..Len(reviews) :
        (reviews[i].card_id # reviews[j].card_id /\ reviews[i].ts < reviews[j].ts) => i < j

C17_BuryKeepsSuspended ==
    [][\A ids \in Subsets \ {{}} :
          BuryCards(ids)
          => \A c \in ids :
                 cards'[c].state = IF cards[c].state = "suspended" THEN "suspended"
                                                                  ELSE "buried"]_vars

\* What C18 expects of a restoring step: the cards of `ids` in state `from`
\* get new or review by reps, nothing else changes.
C18_Post(ids, from) ==
    \A c \in CardIds :
        cards'[c] = IF c \in ids /\ cards[c].state = from
                    THEN [cards[c] EXCEPT !.state = IF cards[c].reps = 0 THEN "new"
                                                                        ELSE "review"]
                    ELSE cards[c]

\* C18: anki_unsuspend_cards changes only listed cards in state suspended,
\* anki_unbury_cards only listed cards in state buried (every buried card
\* when no ids are given); each gets state new if reps = 0 and review
\* otherwise; due, ivl, ease, reps and lapses of every card stay.
C18_RestoreOnly ==
    [][/\ \A ids \in Subsets \ {{}} : UnsuspendCards(ids) => C18_Post(ids, "suspended")
       /\ \A ids \in Subsets :
              UnburyCards(ids) => C18_Post(IF ids = {} THEN CardIds ELSE ids, "buried")]_vars

\* C18 witness: a card answered once while new (learning, ivl 0) has been
\* restored to review with its reps and ivl as they were, while its sibling
\* with reps = 0 is new.
C18_Witness ==
    \E c, o \in CardIds :
        /\ cards[c].state = "review" /\ cards[c].ivl = 0 /\ cards[c].reps = 1
        /\ cards[o].state = "new" /\ cards[o].reps = 0

\* C19: anki_reset_cards gives each listed card state new, due 0, ivl 0,
\* ease 2.5, reps 0, lapses 0, leaves the other cards as they are, and a
\* second application leaves the table as the first left it.
C19_Reset ==
    [][\A ids \in Subsets \ {{}} :
          ResetCards(ids)
          => /\ \A c \in ids :
                    /\ cards'[c].state = "new" /\ cards'[c].due = 0 /\ cards'[c].ivl = 0
                    /\ cards'[c].ease = 250 /\ cards'[c].reps = 0 /\ cards'[c].lapses = 0
             /\ \A c \in CardIds \ ids : cards'[c] = cards[c]
             /\ ResetStore(ResetStore(cards, ids), ids) = cards']_vars

\* C19 witness: a card that an Easy answer had put in review with ease 2.65
\* is new again with ease 2.5, due 0 and reps 0.
C19_Witness ==
    \E i \in 1..Len(reviews) :
        /\ reviews[i].state_after = "review" /\ reviews[i].ease_after = 265
        /\ LET row == cards[reviews[i].card_id]
           IN  /\ row.state = "new" /\ row.ease = 250 /\ row.due = 0
               /\ row.ivl = 0 /\ row.reps = 0

\* C20: every card in state new has reps = 0 and ivl = 0.
C20_NewIsFresh ==
    \A c \in CardIds : cards[c].state = "new" => cards[c].reps = 0 /\ cards[c].ivl = 0

\* C20 witness: a card that was answered into learning is in state new, with
\* reps 0 and ivl 0, while its sibling is in review with reps 1.
C20_Witness ==
    \E i \in 1..Len(reviews), o \in CardIds :
        /\ reviews[i].state_before = "new" /\ reviews[i].state_after = "learning"
        /\ cards[reviews[i].card_id].state = "new"
        /\ cards[reviews[i].card_id].reps = 0 /\ cards[reviews[i].card_id].ivl = 0
        /\ cards[o].state = "review" /\ cards[o].reps = 1

\* C21: in a step that is not anki_reset_cards, no card's lapses decreases,
\* and a card's lapses changes only by +1 and only in the card update of an
\* answer with rating 1 that read the card in state review.
C21_LapsesMonotone ==
    [][(\A ids \in Subsets : ~ResetCards(ids))
       => \A c \in CardIds :
              /\ cards'[c].lapses >= cards[c].lapses
              /\ cards'[c].lapses # cards[c].lapses
                 => /\ cards'[c].lapses = cards[c].lapses + 1
                    /\ \E k \in CallIds :
                          /\ calls[k].pc = "updating" /\ calls'[k].pc = "inserting"
                          /\ calls[k].cardId = c /\ calls[k].rating = 1
                          /\ calls[k].beforeState.state = "review"]_vars

RECURSIVE AncestorsOrSelf(_, _)
\* The deck and the decks above it on its parent_id chain, up to `fuel` links.
AncestorsOrSelf(d, fuel) ==
    IF d = NULL THEN {}
    ELSE IF fuel = 0 THEN {d}
    ELSE {d} \cup AncestorsOrSelf(decks[d].parent_id, fuel - 1)

\* The scope C25 describes.
ClaimedScope(c, deckId, includeSubdecks) ==
    \/ deckId = NULL
    \/ deckId # NULL /\ includeSubdecks /\ deckId \in AncestorsOrSelf(DeckOfCard(c), NumDecks)
    \/ deckId # NULL /\ ~includeSubdecks /\ DeckOfCard(c) = deckId

\* C25: anki_get_next_card returns a result, its card is the first due
\* candidate among exactly the cards of the requested scope (the deck and its
\* transitive descendants, the deck alone, or all decks), and its counts
\* count exactly the due new and due review/learning cards of that scope.
C25_Scope ==
    nextResult.called =>
        LET d == nextResult.deckId
            sub == nextResult.includeSubdecks
            due == {c \in CardIds : /\ cards[c].state \in {"learning", "relearning", "new", "review"}
                                    /\ cards[c].due <= today
                                    /\ ClaimedScope(c, d, sub)}
        IN  /\ ~nextResult.threw
            /\ IF due = {} THEN nextResult.card = NULL
               ELSE /\ nextResult.card \in due
                    /\ \A o \in due \ {nextResult.card} : OrderedBefore(nextResult.card, o)
            /\ nextResult.newCount = Cardinality({c \in due : cards[c].state = "new"})
            /\ nextResult.reviewCount = Cardinality({c \in due : cards[c].state # "new"})

\* C25 without the deck filter: the same statement for calls without deckId.
C25_NoDeckId ==
    (nextResult.called /\ nextResult.deckId = NULL) =>
        LET due == {c \in CardIds : /\ cards[c].state \in {"learning", "relearning", "new", "review"}
                                    /\ cards[c].due <= today}
        IN  /\ ~nextResult.threw
            /\ IF due = {} THEN nextResult.card = NULL
               ELSE /\ nextResult.card \in due
                    /\ \A o \in due \ {nextResult.card} : OrderedBefore(nextResult.card, o)
            /\ nextResult.newCount = Cardinality({c \in due : cards[c].state = "new"})
            /\ nextResult.reviewCount = Cardinality({c \in due : cards[c].state # "new"})

\* Every reference of the four tables resolves.
ReferencesResolve ==
    /\ \A i \in LiveReviews : reviews[i].card_id \in DOMAIN cards
    /\ \A c \in DOMAIN cards : cards[c].note_id \in DOMAIN notes
    /\ \A n \in DOMAIN notes : notes[n].deck_id \in DOMAIN decks
    /\ \A d \in DOMAIN decks : decks[d].parent_id = NULL \/ decks[d].parent_id \in DOMAIN decks

\* C22: in every reachable state every review row references an existing
\* card, every card an existing note, every note an existing deck and every
\* non-null parent_id an existing deck; deleting a deck that has child decks
\* or notes changes no table; and an anki_delete_cards call that completes
\* leaves none of the listed cards and no review row of theirs.
C22_Integrity ==
    /\ []ReferencesResolve
    /\ [][/\ \A d \in DOMAIN decks :
              (DeckDelete(d) /\ (\/ \E ch \in DOMAIN decks : decks[ch].parent_id = d
                                 \/ \E n \in DOMAIN notes : notes[n].deck_id = d))
              => UNCHANGED <<cards, decks, notes, reviews, deletedReviews>>
          /\ (del.pc = "cards" /\ del'.pc = "done")
              => \A c \in del.cardIds :
                     /\ c \notin DOMAIN cards'
                     /\ \A i \in 1..Len(reviews') :
                            reviews'[i].card_id = c => i \in deletedReviews']_vars

\* C22 witness: anki_delete_cards has completed for a card that had a review
\* row, and a deck besides the fixture decks exists.
C22_Witness ==
    /\ del.pc = "done"
    /\ \E i \in deletedReviews : reviews[i].card_id \in del.cardIds
    /\ \A c \in del.cardIds : c \notin DOMAIN cards

\* A step list of the data model: non-empty, every step a positive integer.
ClaimedSteps(steps) ==
    /\ Len(steps) > 0
    /\ \A i \in 1..Len(steps) : steps[i] > 0 /\ IsInteger(steps[i])

\* The fields of a configuration that violate the constraints of the data
\* model.
ClaimedViolations(config) ==
    {f \in DOMAIN config :
        \/ f = "learningStepsMins" /\ ~ClaimedSteps(config.learningStepsMins)
        \/ f = "lapseStepsMins" /\ ~ClaimedSteps(config.lapseStepsMins)
        \/ f = "graduatingIntervalDays" /\ ~(config.graduatingIntervalDays > 0)
        \/ f = "easyBonus" /\ ~(config.easyBonus >= 100)
        \/ f = "hardInterval" /\ ~(config.hardInterval >= 100)
        \/ f = "newPerDay" /\ ~(IsInteger(config.newPerDay) /\ config.newPerDay >= 0)
        \/ f = "reviewsPerDay" /\ ~(IsInteger(config.reviewsPerDay) /\ config.reviewsPerDay >= 0)
        \/ f = "minEase" /\ ~(config.minEase >= 130)
        \/ f = "leechThreshold" /\ ~(config.leechThreshold >= 1)
        \/ f = "leechAction" /\ config.leechAction \notin {"suspend", "tag"}
        \/ f = "fuzzPercent" /\ ~(config.fuzzPercent >= 0 /\ config.fuzzPercent <= 50)
        \/ f = "burySiblings" /\ config.burySiblings \notin BOOLEAN}

\* The field a message of validateConfig is about.
FieldNamed(m) ==
    CASE m = "learningStepsMins must be a non-empty array" -> "learningStepsMins"
      [] m = "All learning steps must be positive numbers" -> "learningStepsMins"
      [] m = "graduatingIntervalDays must be a positive number" -> "graduatingIntervalDays"
      [] m = "easyBonus must be a number >= 1.0" -> "easyBonus"
      [] m = "hardInterval must be a number >= 1.0" -> "hardInterval"
      [] m = "lapseStepsMins must be a non-empty array" -> "lapseStepsMins"
      [] m = "All lapse steps must be positive numbers" -> "lapseStepsMins"
      [] m = "newPerDay must be a non-negative integer" -> "newPerDay"
      [] m = "reviewsPerDay must be a non-negative integer" -> "reviewsPerDay"
      [] m = "minEase must be a number >= 1.3" -> "minEase"
      [] m = "leechThreshold must be a positive integer" -> "leechThreshold"
      [] m = "leechAction must be either suspend or tag" -> "leechAction"
      [] m = "fuzzPercent must be a number between 0 and 0.5" -> "fuzzPercent"
      [] m = "burySiblings must be a boolean" -> "burySiblings"

\* C23: an anki_config_set whose merge of defaults, stored configuration and
\* patch violates a constraint of the data model leaves the stored
\* configuration unchanged and its error names every violated field; any
\* other anki_config_set stores exactly that merge.
C23_ConfigSet ==
    [][\A d \in DOMAIN decks, p \in StorePatches :
          ConfigSet(d, p)
          => LET merged == Spread(Spread(getDefaultConfig, decks[d].config), p)
                 violated == ClaimedViolations(merged)
             IN  IF violated # {}
                 THEN /\ decks' = decks
                      /\ violated \subseteq {FieldNamed(m) : m \in validateConfig(merged)}
                 ELSE decks'[d].config = merged]_vars

\* C24: the stored configuration of every deck satisfies the constraints of
\* the data model.
C24_StoredConfigValid ==
    \A d \in DOMAIN decks : ClaimedViolations(decks[d].config) = {}

\* C26: no deck is its own ancestor along parent_id (so getChildren, which
\* recurses into every child, terminates on every deck).
C26_Acyclic ==
    \A d \in DOMAIN decks :
        d \notin AncestorsOrSelf(decks[d].parent_id, NumDecks + MaxStoreOps)

\* The record an iteration of the import loop is about to process, and the
\* deck it names.
CurrentRecord == imp.records[imp.i]

CurrentDeck == IF CurrentRecord.deck = "" THEN imp.deckDefault ELSE CurrentRecord.deck

\* The record passes the validation of processRecord.
CurrentValid ==
    /\ CurrentRecord.fields.front # ""
    /\ ~(CurrentRecord.model = "basic" /\ BackOf(CurrentRecord.fields) = "")

\* The target deck holds a note with the front and the back of the record
\* (a missing back counting as the empty back).
ClaimedDuplicate ==
    \E n \in DOMAIN notes :
        /\ decks[notes[n].deck_id].name = CurrentDeck
        /\ notes[n].fields.front = CurrentRecord.fields.front
        /\ BackOf(notes[n].fields) = BackOf(CurrentRecord.fields)

\* C27: no step of an import with dryRun=true changes a table.
C27_DryRunFrame ==
    [][(imp'.pc \in {"running", "done"} /\ imp' # imp /\ imp'.dryRun)
       => UNCHANGED <<cards, decks, notes, reviews, deletedReviews>>]_vars

\* C28: processing a valid record that names a deck no deck has, in an import
\* that is not a dry run, creates that deck with the default configuration,
\* inserts the note into it and counts the note and its cards (unless the
\* store rejects an INSERT).
C28_NewDeckCreated ==
    [][(/\ imp.pc = "running" /\ ~imp.dryRun /\ CurrentValid
        /\ \A d \in DOMAIN decks : decks[d].name # CurrentDeck)
       => \/ \E e \in imp'.errors \ imp.errors : e.error = "SQLITE_ERROR"
          \/ /\ \E d \in DOMAIN decks' :
                    /\ decks'[d].name = CurrentDeck
                    /\ decks'[d].config = getDefaultConfig
                    /\ \E n \in DOMAIN notes' \ DOMAIN notes : notes'[n].deck_id = d
             /\ imp'.insertedNotes = imp.insertedNotes + 1
             /\ imp'.insertedCards = imp.insertedCards
                                        + getCardCount(CurrentRecord.model, CurrentRecord.fields)
             /\ imp'.errors = imp.errors]_vars

\* C29: every iteration of the import loop moves on to the next record and
\* counts its record exactly once: as inserted (insertedNotes grows by one,
\* nothing is reported), as errored (one entry with the record's row or
\* index is reported, nothing is inserted) or as skipped (neither).
C29_CountedOnce ==
    [][imp.pc = "running"
       => LET inserted == imp'.insertedNotes - imp.insertedNotes
              reported == imp'.errors \ imp.errors
              stored == DOMAIN notes' \ DOMAIN notes
          IN  /\ imp'.i = imp.i + 1
              /\ imp'.pc = IF imp.i = Len(imp.records) THEN "done" ELSE "running"
              /\ \/ /\ inserted = 1 /\ reported = {}
                    /\ imp.dryRun \/ Cardinality(stored) = 1
                 \/ /\ inserted = 0 /\ stored = {}
                    /\ \E message \in {"Front field is required",
                                        "Back field is required for basic model",
                                        "Deck not found", "SQLITE_ERROR"} :
                          reported = {ErrorEntry(imp.format, imp.i, message)}
                 \/ inserted = 0 /\ stored = {} /\ reported = {}]_vars

\* C30: with dedupe=true a valid record is skipped (neither counted nor
\* reported) exactly when the target deck holds a note with identical front
\* and back.
C30_Dedupe ==
    [][(imp.pc = "running" /\ imp.dedupe /\ CurrentValid)
       => ((imp'.insertedNotes = imp.insertedNotes /\ imp'.errors = imp.errors)
           <=> ClaimedDuplicate)]_vars

\* C30, one direction: a valid record is skipped whenever the target deck
\* holds a note with identical front and back.
C30_SkipsIdentical ==
    [][(imp.pc = "running" /\ imp.dedupe /\ CurrentValid /\ ClaimedDuplicate)
       => (imp'.insertedNotes = imp.insertedNotes /\ imp'.errors = imp.errors)]_vars

\* C36: the card anki_get_next_card returns is not preceded, among the due
\* candidates of its state priority and its due, by a card with a smaller
\* non-null queue_position, is not a card without queue_position while such
\* a candidate has one, and has the smallest id among those equal in
\* queue_position.
C36_QueuePositionNullsLast ==
    (nextResult.called /\ ~nextResult.threw /\ nextResult.card # NULL) =>
        LET r == cards[nextResult.card]
        IN  \A o \in DOMAIN cards :
                (/\ DueInScope(o, nextResult.deckId, nextResult.includeSubdecks)
                 /\ ClaimedRank(cards[o].state) = ClaimedRank(r.state)
                 /\ cards[o].due = r.due)
                => /\ ~(r.queue_position = NULL /\ cards[o].queue_position # NULL)
                   /\ (r.queue_position # NULL /\ cards[o].queue_position # NULL)
                      => r.queue_position <= cards[o].queue_position
                   /\ r.queue_position = cards[o].queue_position => nextResult.card <= o

\* The key and the value of a term as the tokenisation rules give them: the
\* value is the whole text behind the first colon.
ClaimedSplit(token, sep) ==
    LET i == IndexOf(token, sep)
    IN  [ key |-> SubSeq(token, 1, i - 1), value |-> SubSeq(token, i + 1, Len(token)) ]

\* The recognised terms of a query with their values.
ClaimedTerms(query) ==
    LET tokens == tokenizeQuery(query)
    IN  SelectSeq([i \in 1..Len(tokens) |->
                      ConditionOf(tokens[i], ClaimedSplit(tokens[i], CL))],
                  LAMBDA c : c.kind # "none")

\* s contains p, letter for letter
ContainsExactly(s, p) == \E i \in 0..(Len(s) - Len(p)) : SubSeq(s, i + 1, i + Len(p)) = p

\* The predicate of a term: for note: and bare terms some field text contains
\* the value (case-sensitive), for the other keys the listed comparison.
ClaimedPredicate(c, term) ==
    LET fields == notes[cards[c].note_id].fields
    IN  IF term.kind = "fields"
        THEN \E f \in DOMAIN fields : ContainsExactly(Lexemes(fields[f]), term.text)
        ELSE Satisfies(c, term)

ClaimedMatches(query) ==
    {c \in DOMAIN cards :
        \A i \in 1..Len(ClaimedTerms(query)) : ClaimedPredicate(c, ClaimedTerms(query)[i])}

SearchReturned == "query" \in DOMAIN nextResult

DueIdBefore(c, o) ==
    cards[c].due < cards[o].due \/ (cards[c].due = cards[o].due /\ c < o)

\* C34: anki_search_cards returns the cards that satisfy the predicates of all
\* recognised terms of the query (a term with an unknown key constrains
\* nothing), in the order of due then id, cut after limit cards.
C34_SearchConjunction ==
    SearchReturned =>
        LET r == nextResult.cards
            M == ClaimedMatches(nextResult.query)
        IN  /\ \A i \in 1..Len(r) : r[i] \in M
            /\ Len(r) = (IF Cardinality(M) < nextResult.limit THEN Cardinality(M)
                         ELSE nextResult.limit)
            /\ \A i, j \in 1..Len(r) : i < j => DueIdBefore(r[i], r[j])
            /\ \A c \in M : (\A i \in 1..Len(r) : r[i] # c)
                               => \A i \in 1..Len(r) : DueIdBefore(r[i], c)

\* C35: the quoted value of a term is kept whole: the query
\* deck:"Spanish::Basics" is one token and returns exactly the cards whose
\* deck name contains Spanish::Basics.
C35_QuotedValueWhole ==
    (/\ SearchReturned
     /\ nextResult.query = <<"deck", CL, DQ, "Spanish", CL, CL, "Basics", DQ>>
     /\ nextResult.limit = 100)
    => /\ tokenizeQuery(nextResult.query) = <<nextResult.query>>
       /\ {nextResult.cards[i] : i \in 1..Len(nextResult.cards)}
            = {c \in DOMAIN cards :
                 ContainsExactly(Lexemes(decks[DeckOfCard(c)].name),
                                 <<"Spanish", CL, CL, "Basics">>)}

\* The cards a step adds for note n, and their templates in the order of
\* their ids.
AddedCards(n) == {c \in DOMAIN cards' \ DOMAIN cards : cards'[c].note_id = n}

RECURSIVE TemplatesById(_)
TemplatesById(S) ==
    IF S = {} THEN <<>>
    ELSE LET first == CHOOSE c \in S : \A o \in S : c <= o
         IN  <<cards'[first].template>> \o TemplatesById(S \ {first})

ClozeNumberOf(template) == CHOOSE n \in 1..3 : ClozeTemplate(n) = template

\* The distinct cloze numbers of a text.
ClaimedNumbers(text) == {ClozeMatches(text)[i] : i \in 1..Len(ClozeMatches(text))}

\* A call of generate_cards_for_note that met no store error, and an import
\* step that stored its note and cards without one.
GenerateEnded(n) ==
    /\ "cardIds" \in DOMAIN nextResult'
    /\ nextResult'.noteId = n
    /\ nextResult'.error \notin {"SQLITE_ERROR", "Note not found"}

ImportStored(n) ==
    /\ imp.pc = "running"
    /\ imp'.pc # "failed"
    /\ imp'.i = imp.i + 1
    /\ n \notin DOMAIN notes
    /\ imp'.errors = imp.errors

\* C31: the cards minted for a cloze note carry the templates cloze-N of the
\* cloze numbers N of its text, are created in ascending order of N, and are
\* one per distinct N (none for a text without marker) when the call or the
\* import step ends without error.
C31_ClozeAscending ==
    [][\A n \in DOMAIN notes' :
          notes'[n].model = "cloze" =>
            LET numbers == ClaimedNumbers(notes'[n].fields.front)
                added   == AddedCards(n)
            IN  /\ \A c \in added : cards'[c].template \in {ClozeTemplate(k) : k \in numbers}
                /\ \A c1, c2 \in added :
                      c1 < c2 => ClozeNumberOf(cards'[c1].template)
                                   < ClozeNumberOf(cards'[c2].template)
                /\ (GenerateEnded(n) \/ ImportStored(n))
                      => Cardinality(added) = Cardinality(numbers)]_vars

\* The templates of a note that is not a cloze note.
ClaimedTemplates(model) ==
    IF model = "basic_reverse" THEN <<"forward", "reverse">> ELSE <<"forward">>

\* C32: a basic and a custom note get one forward card, a basic_reverse note
\* a forward and a reverse card, all new with due 0, from
\* generate_cards_for_note, from the real run of the importers and in the
\* count of their dry run.
C32_CardsPerModel ==
    [][/\ \A n \in DOMAIN notes' :
            (notes'[n].model # "cloze" /\ (GenerateEnded(n) \/ ImportStored(n)))
            => /\ TemplatesById(AddedCards(n)) = ClaimedTemplates(notes'[n].model)
               /\ \A c \in AddedCards(n) : cards'[c].state = "new" /\ cards'[c].due = 0
       /\ (/\ imp.pc = "running"
           /\ imp.dryRun
           /\ imp'.insertedNotes = imp.insertedNotes + 1
           /\ imp.records[imp.i].model # "cloze")
          => imp'.insertedCards
               = imp.insertedCards + Len(ClaimedTemplates(imp.records[imp.i].model))]_vars

\* C39: no two cards of a note share a template.
C39_TemplatesUnique ==
    \A c1, c2 \in DOMAIN cards :
        (c1 # c2 /\ cards[c1].note_id = cards[c2].note_id)
            => cards[c1].template # cards[c2].template

\* C37: for a card in new, learning, relearning or review, any rating and a
\* valid config with fuzzPercent 0, applyScheduling and Scheduler.scheduleCard
\* compute the same state, ivl, ease, reps, lapses and due.
C37_SchedulersAgree ==
    (/\ sOut.tool # NoSched
     /\ sOut.sched # NoSched
     /\ sIn.card.state \in SchedStates
     /\ sIn.config.fuzzPercent = 0
     /\ validateConfig(sIn.config) = {})
    => /\ ~sOut.sched.threw
       /\ \A f \in {"state", "ivl", "ease", "reps", "lapses", "due"} :
             sOut.tool[f] = sOut.sched.afterState[f]

\* An import of the exported Markdown document, without dedupe, has ended in
\* a store that was empty before it, and the store rejected no statement.
RoundTripEnded ==
    /\ exported.pc = "written"
    /\ exported.format = "markdown"
    /\ imp.pc = "done"
    /\ imp.format = "markdown" /\ ~imp.dedupe /\ ~imp.dryRun
    /\ imp.records = parseMarkdown(exported.content)
    /\ \A d \in DOMAIN decks : decks[d].name = imp.deckDefault
    /\ \A e \in imp.errors : e.error # "SQLITE_ERROR"

SameNote(a, b) ==
    /\ a.deck = b.deck
    /\ a.model = b.model
    /\ a.tags = b.tags
    /\ \A k \in {"front", "back", "extra"} : FieldOr(a.fields, k) = FieldOr(b.fields, k)

\* The notes of the store in the order of their ids.
StoredNotes ==
    LET ids == ById(DOMAIN notes)
    IN  [i \in 1..Len(ids) |->
            [ deck |-> decks[notes[ids[i]].deck_id].name, model |-> notes[ids[i]].model,
              fields |-> notes[ids[i]].fields, tags |-> notes[ids[i]].tags ]]

\* C33: a deck of basic, basic_reverse and cloze notes exported to Markdown
\* and imported without dedupe into an empty store gives the same notes: as
\* many, each with the deck name, model, field texts and tags it had.
C33_RoundTrip ==
    RoundTripEnded =>
        /\ Len(StoredNotes) = Len(exported.notes)
        /\ \A i \in 1..Len(StoredNotes) : SameNote(StoredNotes[i], exported.notes[i])

====
